---- MODULE Spec2Model ----
(***************************************************************************)
(* The go.rs compiler back end (compiler/src/codegen.rs, lib.rs, ast.rs)   *)
(* and the run-time library (runtime/src/lib.rs) as a state machine.       *)
(*                                                                         *)
(* The state is the CodeGen struct (module, builder, symbol_table,         *)
(* current_function), the position of the depth-first walk (the pending    *)
(* frames of gen_program / gen_function / gen_block / gen_if), and, once   *)
(* generation has succeeded, the state of the generated `main` while it    *)
(* executes.                                                               *)
(***************************************************************************)
EXTENDS Integers, Sequences, FiniteSets, TLC

VARIABLES
    program,            \* the Program handed to compile_aot
    stage,              \* position inside compile_aot / the run of the binary
    module,             \* CodeGen.module: functions and their basic blocks
    builder,            \* CodeGen.builder: the cursor (and the value numbering)
    symbol_table,       \* CodeGen.symbol_table: name -> alloca
    current_function,   \* CodeGen.current_function: 0 is None
    fidx,               \* gen_program: index of the next function of the loop
    todo,               \* pending frames of gen_block / gen_if / gen_function
    result,             \* what gen_program returned (or the panic that ended it)
    events,             \* history: what every gen_binop / gen_if / Return did
    exec,               \* the running generated program
    aot                 \* compile_aot: steps done, files on disk, how it ended

vars == <<program, stage, module, builder, symbol_table, current_function,
          fidx, todo, result, events, exec, aot>>

----------------------------------------------------------------------------
(* Bounds of the model *)

\* width of the Go `int` in the model (i64 in the source, scaled down)
IntBits == 8
\* deepest nesting of If statements in the generated inputs
MaxNest == 2

MinInt == -(2 ^ (IntBits - 1))
MaxInt == (2 ^ (IntBits - 1)) - 1

----------------------------------------------------------------------------
(* ast.rs: the typed tree *)

Type == {"Int", "Bool", "Float32", "Float64", "GoString"}

BinaryOp == {"Add", "Sub", "Mul", "Div", "Eq", "Neq", "Ge", "Le", "Geq", "Leq"}

ArithOps == {"Add", "Sub", "Mul", "Div"}

Name(ty, n) == [kind |-> "Name", expr_type |-> ty, name |-> n]

Literal(ty, text) == [kind |-> "Literal", expr_type |-> ty, value |-> text]

BinOp(ty, op, l, r) ==
    [kind |-> "BinaryOp", expr_type |-> ty, op |-> op, left |-> l, right |-> r]

\* expr_type "None" is Option::None: the callee returns nothing
Call(ty, f, args) == [kind |-> "Call", expr_type |-> ty, func |-> f, args |-> args]

Assignment(n, ty, e) == [kind |-> "Assignment", name |-> n, var_type |-> ty, expr |-> e]

If(c, t, e) == [kind |-> "If", cond |-> c, then_block |-> t, else_block |-> e]

Return(e) == [kind |-> "Return", expr |-> e]

ExprStmt(e) == [kind |-> "Expression", expr |-> e]

FuncDef(n, ps, rt, code) ==
    [name |-> n, params |-> ps, return_type |-> rt, code |-> code]

Program(fs) == [package_name |-> "main", functions |-> fs]

\* Type::to_llvm
to_llvm(ty) ==
    CASE ty = "Int" -> "i64"
      [] ty = "Float32" -> "f32"
      [] ty = "Float64" -> "f64"
      [] ty = "Bool" -> "i1"
      [] ty = "GoString" -> "ptr"

\* Expression::get_type: the tag of the node; panics (expect) on a void call
get_type(e) ==
    IF e.kind = "Call" /\ e.expr_type = "None"
    THEN [ok |-> FALSE, ty |-> "None"]
    ELSE [ok |-> TRUE, ty |-> e.expr_type]

----------------------------------------------------------------------------
(* Values of the generated IR (inkwell's BasicValueEnum) *)

\* k: "const" | "reg" | "str" | "param" | "none"; v: the constant or the
\* register number; s: the bytes of a global string; fn: the owning function
Val(k, ty, v, s, fn) == [k |-> k, ty |-> ty, v |-> v, s |-> s, fn |-> fn]

NoValue == Val("none", "void", 0, <<>>, 0)

ConstInt(ty, v) == Val("const", ty, v, <<>>, 0)

\* the variant of BasicValueEnum a value of this LLVM type is
ValueKind(ty) ==
    CASE ty \in {"i64", "i1"} -> "IntValue"
      [] ty \in {"f32", "f64"} -> "FloatValue"
      [] ty = "ptr" -> "PointerValue"
      [] OTHER -> "None"

\* results of the generator: Ok, the four Err messages, or a Rust panic
ERR_UNDEFINED_VARIABLE == "UndefinedVariable"
ERR_UNDEFINED_FUNCTION == "UndefinedFunction"
ERR_TYPE_MISMATCH == "TypeMismatch"
ERR_UNSUPPORTED == "UnsupportedOperation"
PANIC == "panic"

\* crate::errors::ERR_DIV_BY_ZERO
ERR_DIV_BY_ZERO == <<"division by zero">>

----------------------------------------------------------------------------
(* Literal text: str::parse and str::replace *)

Digits == <<"0", "1", "2", "3", "4", "5", "6", "7", "8", "9">>

IsDigit(c) == \E i \in 1..10 : Digits[i] = c

DigitVal(c) == (CHOOSE i \in 1..10 : Digits[i] = c) - 1

RECURSIVE DigitsValue(_, _)
\* the value of a run of digits, capped once it is beyond every integer width here
DigitsValue(cs, acc) ==
    IF cs = <<>> THEN acc
    ELSE LET a == acc * 10 + DigitVal(Head(cs))
         IN DigitsValue(Tail(cs), IF a > 2 ^ (IntBits + 2) THEN 2 ^ (IntBits + 2) ELSE a)

AllDigits(cs) == cs # <<>> /\ \A i \in 1..Len(cs) : IsDigit(cs[i])

\* str::parse::<i64>: optional sign, digits, in range
parse_int(text) ==
    LET signed == text # <<>> /\ Head(text) \in {"-", "+"}
        body == IF signed THEN Tail(text) ELSE text
        mag == DigitsValue(body, 0)
        val == IF signed /\ Head(text) = "-" THEN -mag ELSE mag
    IN IF AllDigits(body) /\ val >= MinInt /\ val <= MaxInt
       THEN [ok |-> TRUE, v |-> val]
       ELSE [ok |-> FALSE, v |-> 0]

\* str::parse::<u64>: optional '+', digits
parse_uint(text) ==
    LET plus == text # <<>> /\ Head(text) = "+"
        body == IF plus THEN Tail(text) ELSE text
    IN IF AllDigits(body) /\ DigitsValue(body, 0) <= 2 * MaxInt + 1
       THEN [ok |-> TRUE, v |-> DigitsValue(body, 0)]
       ELSE [ok |-> FALSE, v |-> 0]

PointAt(text) ==
    IF \E i \in 1..Len(text) : text[i] = "."
    THEN CHOOSE i \in 1..Len(text) : text[i] = "." /\ \A j \in 1..(i - 1) : text[j] # "."
    ELSE 0

\* str::parse::<f32> / <f64> on decimal text: the value in tenths
parse_float(text) ==
    LET signed == text # <<>> /\ Head(text) \in {"-", "+"}
        body == IF signed THEN Tail(text) ELSE text
        p == PointAt(body)
        ip == IF p = 0 THEN body ELSE SubSeq(body, 1, p - 1)
        fp == IF p = 0 THEN <<>> ELSE SubSeq(body, p + 1, Len(body))
        okText == /\ (ip # <<>> \/ fp # <<>>)
                  /\ \A i \in 1..Len(ip) : IsDigit(ip[i])
                  /\ \A i \in 1..Len(fp) : IsDigit(fp[i])
        tenths == DigitsValue(ip, 0) * 10 + (IF fp = <<>> THEN 0 ELSE DigitVal(fp[1]))
    IN IF okText
       THEN [ok |-> TRUE, v |-> IF signed /\ Head(text) = "-" THEN -tenths ELSE tenths]
       ELSE [ok |-> FALSE, v |-> 0]

RECURSIVE unescape(_)
\* value.replace("\\n", "\n")
unescape(text) ==
    IF Len(text) >= 2 /\ text[1] = "\\" /\ text[2] = "n"
    THEN <<"\n">> \o unescape(SubSeq(text, 3, Len(text)))
    ELSE IF text = <<>> THEN <<>>
    ELSE <<Head(text)>> \o unescape(Tail(text))

----------------------------------------------------------------------------
(* The module and the builder (inkwell) *)

Instr(op, pred, dst, a, b, t1, t2, callee, args) ==
    [op |-> op, pred |-> pred, dst |-> dst, a |-> a, b |-> b,
     t1 |-> t1, t2 |-> t2, callee |-> callee, args |-> args]

Terminators == {"ret", "br", "condbr", "unreachable"}

\* the CodeGen struct as one value, for the operators that transform it
Self == [module |-> module, builder |-> builder, symbol_table |-> symbol_table,
         current_function |-> current_function, events |-> events]

\* get_function that finds declarations only, not the functions with a body
get_function_declared(self, name) ==
    LET fs == self.module.functions
        hits == {i \in 1..Len(fs) : fs[i].name = name /\ fs[i].uniq = 0 /\ fs[i].external}
    IN IF hits = {} THEN 0 ELSE CHOOSE i \in hits : TRUE

\* Module::get_function: the function carrying exactly this name, 0 for None
get_function(self, name) ==
    LET fs == self.module.functions
        hits == {i \in 1..Len(fs) : fs[i].name = name /\ fs[i].uniq = 0}
    IN IF hits = {} THEN 0 ELSE CHOOSE i \in hits : TRUE

\* Module::add_function: a second function of a taken name is renamed by LLVM
add_function(self, name, ret, params, external) ==
    LET fs == self.module.functions
        clash == Cardinality({i \in 1..Len(fs) : fs[i].name = name})
        f == [name |-> name, uniq |-> clash, ret |-> ret, params |-> params,
              external |-> external]
    IN [self EXCEPT !.module.functions = Append(fs, f)]

\* Context::append_basic_block(function, label); the new block is the last one
append_basic_block(self, fn, label) ==
    [self EXCEPT !.module.blocks =
        Append(@, [fn |-> fn, label |-> label, instrs |-> <<>>])]

LastBlock(self) == Len(self.module.blocks)

\* Builder::position_at_end
position_at_end(self, bb) == [self EXCEPT !.builder.cursor = bb]

\* every Builder::build_*: the instruction goes to the end of the cursor's block
Emit(self, ins) ==
    [self EXCEPT !.module.blocks[self.builder.cursor].instrs = Append(@, ins)]

NewReg(self, ty) ==
    Val("reg", ty, self.builder.nextval, <<>>, self.current_function)

Bump(self) == [self EXCEPT !.builder.nextval = @ + 1]

\* an instruction that defines a value of type ty; [self, val]
BuildValue(self, op, pred, ty, a, b) ==
    LET dst == NewReg(self, ty)
    IN [self |-> Bump(Emit(self, Instr(op, pred, dst, a, b, 0, 0, "", <<>>))),
        val |-> dst]

build_alloca(self, ty) == BuildValue(self, "alloca", "", ty, NoValue, NoValue)

build_store(self, ptr, val) ==
    Emit(self, Instr("store", "", NoValue, ptr, val, 0, 0, "", <<>>))

\* typed pointers: the loaded value has the type the alloca was made with
build_load(self, ptr) == BuildValue(self, "load", "", ptr.ty, ptr, NoValue)

build_return(self, val) ==
    Emit(self, Instr("ret", "", NoValue, val, NoValue, 0, 0, "", <<>>))

build_unconditional_branch(self, bb) ==
    Emit(self, Instr("br", "", NoValue, NoValue, NoValue, bb, 0, "", <<>>))

build_conditional_branch(self, cond, then_bb, else_bb) ==
    Emit(self, Instr("condbr", "", NoValue, cond, NoValue, then_bb, else_bb, "", <<>>))

build_unreachable(self) ==
    Emit(self, Instr("unreachable", "", NoValue, NoValue, NoValue, 0, 0, "", <<>>))

\* Builder::build_call(...).try_as_basic_value().left(): [self, val], val is
\* NoValue when the callee returns nothing
build_call(self, fi, args) ==
    LET f == self.module.functions[fi]
        dst == IF f.ret = "void" THEN NoValue ELSE NewReg(self, f.ret)
        s1 == Emit(self, Instr("call", "", dst, NoValue, NoValue, 0, 0, f.name, args))
    IN [self |-> IF f.ret = "void" THEN s1 ELSE Bump(s1), val |-> dst]

build_global_string_ptr(text) == Val("str", "ptr", 0, text, 0)

RECURSIVE SumLen(_, _)
SumLen(blocks, i) ==
    IF i = 0 THEN 0 ELSE Len(blocks[i].instrs) + SumLen(blocks, i - 1)

\* number of instructions the module holds
TotalInstrs(self) == SumLen(self.module.blocks, Len(self.module.blocks))

\* a Result: Ok(val) with the new state, or Err / panic
Ok(self, val) == [self |-> self, val |-> val, res |-> "ok"]

Fail(self, why) == [self |-> self, val |-> NoValue, res |-> why]

Log(self, ev) == [self EXCEPT !.events.binops = Append(@, ev)]

----------------------------------------------------------------------------
(* codegen.rs: the expression generator.  An operator that continues the    *)
(* code of a function after one of its calls takes that call's result as    *)
(* its first parameter.                                                     *)

RECURSIVE gen_expr(_, _)
RECURSIVE gen_args(_, _, _)

\* Ok(value) of a build_* that yields a value
OkOf(r) == Ok(r.self, r.val)

\* CodeGen::gen_var_ref
gen_var_ref(self, name) ==
    IF name \in DOMAIN self.symbol_table
    THEN OkOf(build_load(self, self.symbol_table[name]))
    ELSE Fail(self, ERR_UNDEFINED_VARIABLE)

\* IntType::const_int / FloatType::const_float: an i1 keeps the low bit
const_of(ty, v) == ConstInt(ty, IF ty = "i1" THEN v % 2 ELSE v)

\* gen_literal: value.parse::<T>().unwrap() and the constant made of it
literal_of(self, parsed, ty) ==
    IF parsed.ok THEN Ok(self, const_of(ty, parsed.v)) ELSE Fail(self, PANIC)

\* CodeGen::gen_literal: every parse is unwrapped, so bad text is a panic
gen_literal(self, expr_type, value) ==
    CASE expr_type = "Int" -> literal_of(self, parse_int(value), "i64")
      [] expr_type = "Float32" -> literal_of(self, parse_float(value), "f32")
      [] expr_type = "Float64" -> literal_of(self, parse_float(value), "f64")
      [] expr_type = "Bool" -> literal_of(self, parse_uint(value), "i1")
      [] expr_type = "GoString" ->
            Ok(self, build_global_string_ptr(unescape(value)))

\* the IntPredicate of a comparison operator (gen_binop, integer arm)
IntPredicate(op) ==
    CASE op = "Eq" -> "EQ"
      [] op = "Neq" -> "NE"
      [] op = "Ge" -> "SGT"
      [] op = "Le" -> "SLT"
      [] op = "Geq" -> "SGE"
      [] op = "Leq" -> "SLE"

\* the FloatPredicate of a comparison operator (gen_binop, float arm)
FloatPredicate(op) ==
    CASE op = "Eq" -> "OEQ"
      [] op = "Neq" -> "ONE"
      [] op = "Ge" -> "OGT"
      [] op = "Le" -> "OLT"
      [] op = "Geq" -> "OGE"
      [] op = "Leq" -> "OLE"

\* Div: cursor at cont_bb, the division itself
div_continue(self, lhs, rhs) ==
    OkOf(BuildValue(self, "sdiv", "", lhs.ty, lhs, rhs))

\* div_trap without the position_at_end(cont_bb) that follows the trap
div_trap_stay(self, cont_bb, lhs, rhs) ==
    IF get_function(self, "__gopanic") = 0 THEN Fail(self, PANIC)
    ELSE div_continue(
            build_unreachable(
                build_call(self, get_function(self, "__gopanic"),
                           <<build_global_string_ptr(ERR_DIV_BY_ZERO)>>).self),
            lhs, rhs)

\* Div: the trap block (cursor is at panic_bb): __gopanic(message), unreachable
div_trap(self, cont_bb, lhs, rhs) ==
    IF get_function(self, "__gopanic") = 0 THEN Fail(self, PANIC)
    ELSE div_continue(
            position_at_end(
                build_unreachable(
                    build_call(self, get_function(self, "__gopanic"),
                               <<build_global_string_ptr(ERR_DIV_BY_ZERO)>>).self),
                cont_bb),
            lhs, rhs)

\* div_branch with the two targets of the conditional branch exchanged
div_branch_swapped(self, panic_bb, is_not_div_by_zero, lhs, rhs) ==
    div_trap(
        position_at_end(
            build_conditional_branch(self, is_not_div_by_zero, panic_bb, LastBlock(self)),
            panic_bb),
        LastBlock(self), lhs, rhs)

\* Div: cont_bb is appended; branch on the test, cursor to panic_bb
div_branch(self, panic_bb, is_not_div_by_zero, lhs, rhs) ==
    div_trap(
        position_at_end(
            build_conditional_branch(self, is_not_div_by_zero, LastBlock(self), panic_bb),
            panic_bb),
        LastBlock(self), lhs, rhs)

\* Div: panic_bb is appended; append cont_bb
div_cont_bb(self, is_not_div_by_zero, lhs, rhs) ==
    div_branch(append_basic_block(self, self.current_function, "cont_bb"),
               LastBlock(self), is_not_div_by_zero, lhs, rhs)

\* Div: the test is emitted; current_function.unwrap(), append panic_bb
div_blocks(cmp, lhs, rhs) ==
    IF cmp.self.current_function = 0 THEN Fail(cmp.self, PANIC)
    ELSE div_cont_bb(
            append_basic_block(cmp.self, cmp.self.current_function, "panic_bb"),
            cmp.val, lhs, rhs)

\* gen_binop, Div of two ints: the zero test, the trap block, the division
gen_int_div(self, lhs, rhs) ==
    div_blocks(BuildValue(self, "icmp", "NE", "i1", rhs, ConstInt("i64", 0)), lhs, rhs)

\* gen_binop, the arm of two IntValues
gen_int_binop(self, op, lhs, rhs) ==
    CASE op = "Add" -> OkOf(BuildValue(self, "add", "", lhs.ty, lhs, rhs))
      [] op = "Sub" -> OkOf(BuildValue(self, "sub", "", lhs.ty, lhs, rhs))
      [] op = "Mul" -> OkOf(BuildValue(self, "mul", "", lhs.ty, lhs, rhs))
      [] op = "Div" -> gen_int_div(self, lhs, rhs)
      [] OTHER -> OkOf(BuildValue(self, "icmp", IntPredicate(op), "i1", lhs, rhs))

\* float_types_differ comparing the left tag with itself
float_types_never_differ(left, right) == get_type(left).ty # get_type(left).ty

\* gen_binop, float arm: left.get_type() != right.get_type()
float_types_differ(left, right) == get_type(left).ty # get_type(right).ty

\* gen_float_op with every arithmetic result widened to double
gen_float_op_double(self, op, lhs, rhs) ==
    CASE op = "Add" -> BuildValue(self, "fadd", "", "f64", lhs, rhs)
      [] op = "Sub" -> BuildValue(self, "fsub", "", "f64", lhs, rhs)
      [] op = "Mul" -> BuildValue(self, "fmul", "", "f64", lhs, rhs)
      [] op = "Div" -> BuildValue(self, "fdiv", "", "f64", lhs, rhs)
      [] OTHER -> BuildValue(self, "fcmp", FloatPredicate(op), "i1", lhs, rhs)

\* gen_binop, float arm: the instruction of each operator and its value
gen_float_op(self, op, lhs, rhs) ==
    CASE op = "Add" -> BuildValue(self, "fadd", "", lhs.ty, lhs, rhs)
      [] op = "Sub" -> BuildValue(self, "fsub", "", lhs.ty, lhs, rhs)
      [] op = "Mul" -> BuildValue(self, "fmul", "", lhs.ty, lhs, rhs)
      [] op = "Div" -> BuildValue(self, "fdiv", "", lhs.ty, lhs, rhs)
      [] OTHER -> BuildValue(self, "fcmp", FloatPredicate(op), "i1", lhs, rhs)

\* gen_binop, the arm of two FloatValues
gen_float_binop(self, op, left, right, lhs, rhs) ==
    IF ~get_type(left).ok \/ ~get_type(right).ok THEN Fail(self, PANIC)
    ELSE IF float_types_differ(left, right) THEN Fail(self, ERR_TYPE_MISMATCH)
    ELSE OkOf(gen_float_op(self, op, lhs, rhs))

\* the pair of BasicValueEnum variants gen_binop matches on
KindPair(lhs, rhs) == <<ValueKind(lhs.ty), ValueKind(rhs.ty)>>

\* binop_dispatch matching on the left operand alone
binop_dispatch_left(self, op, left, right, lhs, rhs) ==
    CASE ValueKind(lhs.ty) = "IntValue" -> gen_int_binop(self, op, lhs, rhs)
      [] ValueKind(lhs.ty) = "FloatValue" ->
            gen_float_binop(self, op, left, right, lhs, rhs)
      [] OTHER -> Fail(self, ERR_UNSUPPORTED)

\* binop_dispatch without the arm of two floats
binop_dispatch_int_only(self, op, left, right, lhs, rhs) ==
    CASE KindPair(lhs, rhs) = <<"IntValue", "IntValue">> ->
            gen_int_binop(self, op, lhs, rhs)
      [] OTHER -> Fail(self, ERR_UNSUPPORTED)

\* gen_binop: match (left_gen, right_gen)
binop_dispatch(self, op, left, right, lhs, rhs) ==
    CASE KindPair(lhs, rhs) = <<"IntValue", "IntValue">> ->
            gen_int_binop(self, op, lhs, rhs)
      [] KindPair(lhs, rhs) = <<"FloatValue", "FloatValue">> ->
            gen_float_binop(self, op, left, right, lhs, rhs)
      [] OTHER -> Fail(self, ERR_UNSUPPORTED)

\* history: one record per BinaryOp node whose two operands were generated;
\* own is the number of instructions the node itself emitted
BinopEvent(out, before, op, left, right, lhs, rhs) ==
    [op |-> op, ltag |-> left.expr_type, rtag |-> right.expr_type,
     lhs |-> lhs, rhs |-> rhs, res |-> out.res, out |-> out.val,
     own |-> TotalInstrs(out.self) - TotalInstrs(before),
     test_bb |-> before.builder.cursor,
     nblocks |-> Len(before.module.blocks),
     end_bb |-> out.self.builder.cursor]

binop_log(out, before, op, left, right, lhs, rhs) ==
    [out EXCEPT !.self = Log(@, BinopEvent(out, before, op, left, right, lhs, rhs))]

\* gen_binop: both operands are generated
binop_match(r, lhs, op, left, right) ==
    IF r.res # "ok" THEN Fail(r.self, r.res)
    ELSE binop_log(binop_dispatch(r.self, op, left, right, lhs, r.val),
                   r.self, op, left, right, lhs, r.val)

\* gen_binop: the left operand is generated; `?`, then the right operand
binop_right(l, op, left, right) ==
    IF l.res # "ok" THEN Fail(l.self, l.res)
    ELSE binop_match(gen_expr(l.self, right), l.val, op, left, right)

\* CodeGen::gen_binop
gen_binop(self, op, left, right) ==
    binop_right(gen_expr(self, left), op, left, right)

\* gen_call: the value of the call, the bool sentinel for a void callee
call_value(c) ==
    IF c.val = NoValue THEN Ok(c.self, ConstInt("i1", 1)) ELSE Ok(c.self, c.val)

\* gen_call: the arguments are generated; emit the call
call_emit(a, func_value) ==
    IF a.res # "ok" THEN Fail(a.self, a.res)
    ELSE call_value(build_call(a.self, func_value, a.val))

\* CodeGen::gen_call
gen_call(self, func, args) ==
    IF get_function(self, func) = 0 THEN Fail(self, ERR_UNDEFINED_FUNCTION)
    ELSE call_emit(gen_args(self, args, <<>>), get_function(self, func))

\* the last argument is generated; `?`, its value goes first, go on leftwards
args_last(a, rest, compiled_args) ==
    IF a.res # "ok" THEN [self |-> a.self, val |-> <<>>, res |-> a.res]
    ELSE gen_args(a.self, rest, <<a.val>> \o compiled_args)

\* gen_call: one argument is generated; `?`, push, go on
args_next(a, rest, compiled_args) ==
    IF a.res # "ok" THEN [self |-> a.self, val |-> <<>>, res |-> a.res]
    ELSE gen_args(a.self, rest, Append(compiled_args, a.val))

\* gen_args walking the arguments from the right
gen_args_from_right(self, args, compiled_args) ==
    IF args = <<>> THEN [self |-> self, val |-> compiled_args, res |-> "ok"]
    ELSE args_last(gen_expr(self, args[Len(args)]),
                   SubSeq(args, 1, Len(args) - 1), compiled_args)

\* gen_call: the loop over the arguments; val is the list compiled_args
gen_args(self, args, compiled_args) ==
    IF args = <<>> THEN [self |-> self, val |-> compiled_args, res |-> "ok"]
    ELSE args_next(gen_expr(self, Head(args)), Tail(args), compiled_args)

\* CodeGen::gen_expr
gen_expr(self, expr) ==
    CASE expr.kind = "Literal" -> gen_literal(self, expr.expr_type, expr.value)
      [] expr.kind = "BinaryOp" -> gen_binop(self, expr.op, expr.left, expr.right)
      [] expr.kind = "Name" -> gen_var_ref(self, expr.name)
      [] expr.kind = "Call" -> gen_call(self, expr.func, expr.args)

----------------------------------------------------------------------------
(* codegen.rs: statements, blocks, functions *)

\* an insert that keeps the binding a name already has
insert_if_absent(table, name, ptr) ==
    [n \in DOMAIN table \cup {name} |-> IF n \in DOMAIN table THEN table[n] ELSE ptr]

\* HashMap::insert
insert(table, name, ptr) ==
    [n \in DOMAIN table \cup {name} |-> IF n = name THEN ptr ELSE table[n]]

\* Assignment: the alloca is built; store, then bind the name
assign_store(alloca, rhs, name) ==
    Ok([build_store(alloca.self, alloca.val, rhs)
            EXCEPT !.symbol_table = insert(@, name, alloca.val)], NoValue)

\* Assignment: the initializer is generated; `?`, then the alloca
assign_alloca(rhs, name, var_type) ==
    IF rhs.res # "ok" THEN Fail(rhs.self, rhs.res)
    ELSE assign_store(build_alloca(rhs.self, to_llvm(var_type)), rhs.val, name)

\* gen_statement, Statement::Assignment
gen_assignment(self, name, var_type, expr) ==
    assign_alloca(gen_expr(self, expr), name, var_type)

\* Return: the expression is generated; `?`, then build_return(Some(value))
return_value(v) ==
    IF v.res # "ok" THEN Fail(v.self, v.res)
    ELSE Ok(build_return(v.self, v.val), NoValue)

\* gen_statement, Statement::Return
gen_return(self, expr) == return_value(gen_expr(self, expr))

\* Expression statement: the value is dropped
discard_value(v) ==
    IF v.res # "ok" THEN Fail(v.self, v.res) ELSE Ok(v.self, NoValue)

\* gen_statement, Statement::Expression
gen_expression(self, expr) == discard_value(gen_expr(self, expr))

\* history: one record per If statement; then_end / else_end are the blocks
\* that received the branch to cont_bb (0 while that branch is not yet emitted)
IfEvent(self, then_bb, else_bb, cont_bb, else_block) ==
    [fn |-> self.current_function, cond_bb |-> self.builder.cursor,
     then_bb |-> then_bb, else_bb |-> else_bb, cont_bb |-> cont_bb,
     then_end |-> 0, else_end |-> 0, else_empty |-> (else_block = <<>>)]

\* the locals of gen_if that its later steps use
IfFrame(self, then_bb, else_bb, cont_bb) ==
    [id |-> Len(self.events.ifs) + 1, then_bb |-> then_bb, else_bb |-> else_bb,
     cont_bb |-> cont_bb]

\* if_branch with the two targets of the conditional branch exchanged
if_branch_inverted(self, llvm_cond, then_bb, else_bb, else_block) ==
    Ok([position_at_end(
            build_conditional_branch(self, llvm_cond, else_bb, then_bb), then_bb)
            EXCEPT !.events.ifs =
                Append(@, IfEvent(self, then_bb, else_bb, LastBlock(self), else_block))],
       IfFrame(self, then_bb, else_bb, LastBlock(self)))

\* gen_if: the three blocks exist; the conditional branch, cursor to then_bb
if_branch(self, llvm_cond, then_bb, else_bb, else_block) ==
    Ok([position_at_end(
            build_conditional_branch(self, llvm_cond, then_bb, else_bb), then_bb)
            EXCEPT !.events.ifs =
                Append(@, IfEvent(self, then_bb, else_bb, LastBlock(self), else_block))],
       IfFrame(self, then_bb, else_bb, LastBlock(self)))

\* gen_if: then_bb and else_bb are appended; append cont_bb
if_cont_bb(self, llvm_cond, then_bb, else_block) ==
    if_branch(append_basic_block(self, self.current_function, "cont_bb"),
              llvm_cond, then_bb, LastBlock(self), else_block)

\* gen_if: then_bb is appended; append else_bb
if_else_bb(self, llvm_cond, else_block) ==
    if_cont_bb(append_basic_block(self, self.current_function, "else_bb"),
               llvm_cond, LastBlock(self), else_block)

\* gen_if: the condition is generated; `?`, into_int_value(), append then_bb
if_blocks(c, else_block) ==
    IF c.res # "ok" THEN Fail(c.self, c.res)
    ELSE IF ValueKind(c.val.ty) # "IntValue" THEN Fail(c.self, PANIC)
    ELSE if_else_bb(append_basic_block(c.self, c.self.current_function, "then_bb"),
                    c.val, else_block)

\* gen_if up to the first gen_block: current_function.unwrap(), the
\* condition, the three blocks, the conditional branch, the cursor at then_bb
gen_if_enter(self, cond, else_block) ==
    IF self.current_function = 0 THEN Fail(self, PANIC)
    ELSE if_blocks(gen_expr(self, cond), else_block)

\* gen_if between the two gen_block calls: close the then-path, go to else_bb
gen_if_then_end(self, frame) ==
    [position_at_end(build_unconditional_branch(self, frame.cont_bb), frame.else_bb)
        EXCEPT !.events.ifs[frame.id].then_end = self.builder.cursor]

\* gen_if_else_end that emits no branch for an empty else-block
gen_if_else_end_skip_empty(self, frame) ==
    IF self.events.ifs[frame.id].else_empty
    THEN [position_at_end(self, frame.cont_bb)
            EXCEPT !.events.ifs[frame.id].else_end = self.builder.cursor]
    ELSE [position_at_end(build_unconditional_branch(self, frame.cont_bb), frame.cont_bb)
            EXCEPT !.events.ifs[frame.id].else_end = self.builder.cursor]

\* gen_if_else_end without the final position_at_end(cont_bb)
gen_if_else_end_stay(self, frame) ==
    [build_unconditional_branch(self, frame.cont_bb)
        EXCEPT !.events.ifs[frame.id].else_end = self.builder.cursor]

\* gen_if after the second gen_block: close the else-path, go to cont_bb
gen_if_else_end(self, frame) ==
    [position_at_end(build_unconditional_branch(self, frame.cont_bb), frame.cont_bb)
        EXCEPT !.events.ifs[frame.id].else_end = self.builder.cursor]

\* gen_function: the alloca of a parameter is built; store it, bind the name
bind_param(alloca, fn, param, i) ==
    [build_store(alloca.self, alloca.val, Val("param", to_llvm(param[2]), i, <<>>, fn))
        EXCEPT !.symbol_table = insert(@, param[1], alloca.val)]

RECURSIVE bind_params(_, _, _, _)
\* gen_function: alloca, store and symbol-table entry of each parameter
bind_params(self, fn, params, i) ==
    IF i > Len(params) THEN self
    ELSE bind_params(
            bind_param(build_alloca(self, to_llvm(params[i][2])), fn, params[i], i),
            fn, params, i + 1)

\* function_entry without self.current_function = Some(function)
function_entry_unset(self, function, func) ==
    bind_params(position_at_end(self, LastBlock(self)), function, func.params, 1)

\* gen_function: the entry block is appended; cursor, current_function, params
function_entry(self, function, func) ==
    bind_params([position_at_end(self, LastBlock(self))
                    EXCEPT !.current_function = function],
                function, func.params, 1)

\* gen_function: the function is added; append its entry block
function_added(self, func) ==
    function_entry(
        append_basic_block(self, Len(self.module.functions), "entry"),
        Len(self.module.functions), func)

\* the LLVM return type of a signature
llvm_ret(return_type) ==
    IF return_type = "None" THEN "void" ELSE to_llvm(return_type)

\* gen_function up to gen_block: signature, entry block, parameters
gen_function_enter(self, func) ==
    function_added(
        add_function(self, func.name, llvm_ret(func.return_type),
                     [i \in 1..Len(func.params) |-> to_llvm(func.params[i][2])], FALSE),
        func)

\* gen_function after gen_block: "We've got to return something"
gen_function_exit(self, return_type) ==
    IF return_type = "None" THEN build_return(self, NoValue) ELSE self

\* gen_block: the statements of a block as pending frames
StmtFrames(block) == [i \in 1..Len(block) |-> [t |-> "stmt", stmt |-> block[i]]]

\* lib.rs add_runtime: the declarations, in the order they are added
RuntimeDecls ==
    << [name |-> "__flush_stdout", ret |-> "void", params |-> <<>>],
       [name |-> "__gopanic", ret |-> "void", params |-> <<"ptr">>],
       [name |-> "add", ret |-> "i64", params |-> <<"i64", "i64">>],
       [name |-> "__print_int", ret |-> "void", params |-> <<"i64">>],
       [name |-> "__print_bool", ret |-> "void", params |-> <<"i1">>],
       [name |-> "__print_float32", ret |-> "void", params |-> <<"f32">>],
       [name |-> "__print_float64", ret |-> "void", params |-> <<"f64">>],
       [name |-> "__print_gostring", ret |-> "void", params |-> <<"ptr">>] >>

RECURSIVE add_runtime_from(_, _)
add_runtime_from(self, i) ==
    IF i > Len(RuntimeDecls) THEN self
    ELSE add_runtime_from(
            add_function(self, RuntimeDecls[i].name, RuntimeDecls[i].ret,
                         RuntimeDecls[i].params, TRUE), i + 1)

\* add_runtime without its first declaration
add_runtime_less(self) == add_runtime_from(self, 2)

\* lib.rs add_runtime
add_runtime(self) == add_runtime_from(self, 1)

----------------------------------------------------------------------------
(* The programs the model compiles *)

RECURSIVE NatText(_)
NatText(n) == IF n < 10 THEN <<Digits[n + 1]>> ELSE NatText(n \div 10) \o <<Digits[(n % 10) + 1]>>

\* decimal text of an integer, as a literal of the source program carries it
IntText(n) == IF n < 0 THEN <<"-">> \o NatText(-n) ELSE NatText(n)

IntLit(n) == Literal("Int", IntText(n))

BoolLit(b) == Literal("Bool", IF b THEN <<"1">> ELSE <<"0">>)

StrLit == Literal("GoString", <<"h", "i", "\\", "n">>)

\* parameters of the function the operator programs are generated in
OperandParams ==
    << <<"a", "Int">>, <<"p", "Float32">>, <<"q", "Float64">>, <<"s", "GoString">> >>

\* operands of the BinaryOp programs: literals, names and calls of every value
\* kind, names whose tag is not the type of their storage, nested operations
Operands ==
    { IntLit(1), Name("Int", "a"),
      Literal("Float32", <<"1", ".", "5">>), Name("Float32", "p"),
      Literal("Float64", <<"2", ".", "5">>), Name("Float64", "q"),
      StrLit, Name("GoString", "s"), BoolLit(TRUE),
      Name("Float32", "q"), Name("Float64", "p"),
      Call("None", "__flush_stdout", <<>>),
      Call("Int", "add", <<IntLit(1), Name("Int", "a")>>),
      BinOp("Float32", "Add", Name("Float32", "p"), Name("Float32", "p")),
      BinOp("Int", "Div", Name("Int", "a"), IntLit(2)) }

\* the tag a type checker gives a BinaryOp: the operands' type, Bool for a comparison
BinOpTag(op, l) ==
    IF op \in ArithOps THEN (IF l.expr_type = "None" THEN "Int" ELSE l.expr_type)
    ELSE "Bool"

BinopPrograms ==
    { Program(<< FuncDef("f", OperandParams, BinOpTag(op, l),
                         << Return(BinOp(BinOpTag(op, l), op, l, r)) >>) >>) :
        op \in BinaryOp, l \in Operands, r \in Operands }

\* literal text, well formed and not
LiteralTexts ==
    { <<"1">>, <<"-", "1">>, <<"1", ".", "5">>, <<"2">>, <<"x">>, <<>>,
      <<"\\", "n">>, IntText(MaxInt), IntText(MinInt), NatText(MaxInt + 1) }

LiteralPrograms ==
    { Program(<< FuncDef("main", <<>>, "None",
                         << Assignment("v", ty, Literal(ty, text)) >>) >>) :
        ty \in Type, text \in LiteralTexts }

PrintX == ExprStmt(Call("None", "__print_int", <<Name("Int", "x")>>))

AssignX == Assignment("x", "Int", IntLit(1))

AssignDiv == Assignment("x", "Int", BinOp("Int", "Div", IntLit(7), IntLit(2)))

ReturnOne == Return(IntLit(1))

\* blocks without an If
Blocks0 == { <<>>, <<AssignX>>, <<AssignDiv>>, <<ReturnOne>>, <<PrintX>> }

RECURSIVE IfsAt(_)
\* the If statements nested exactly d deep
IfsAt(d) ==
    IF d = 1
    THEN { If(c, t, e) : c \in {BoolLit(TRUE), BoolLit(FALSE)}, t \in Blocks0, e \in Blocks0 }
    ELSE LET inner == { i \in IfsAt(d - 1) : i.cond = BoolLit(TRUE) }
             side == { <<>>, <<ReturnOne>> }
         IN { If(BoolLit(TRUE), <<i>>, e) : i \in inner, e \in side }
            \cup { If(BoolLit(TRUE), t, <<i>>) : i \in inner, t \in side }

Bodies ==
    { pre \o <<i>> \o post :
        pre \in { <<>>, <<AssignX>> }, i \in IfsAt(1),
        post \in { <<>>, <<PrintX>>, <<ReturnOne>> } }
    \cup UNION { { <<i>> \o post : i \in IfsAt(d), post \in { <<>>, <<PrintX>> } } :
                 d \in 2..MaxNest }
    \cup { <<s1, s2>> : s1 \in {AssignX, AssignDiv, ReturnOne, PrintX},
                        s2 \in {AssignX, AssignDiv, ReturnOne, PrintX} }
    \cup Blocks0

ControlPrograms ==
    { Program(<< FuncDef("main", <<>>, rt, body) >>) :
        rt \in {"None", "Int"}, body \in Bodies }

\* the values the division programs divide
DivInts == { MinInt, -7, -1, 0, 1, 2, 7, MaxInt }

DivPrograms ==
    { Program(<< FuncDef("main", <<>>, "None",
                 << Assignment("x", "Int", IntLit(a)),
                    Assignment("d", "Int", IntLit(b)),
                    Assignment("y", "Int",
                               BinOp("Int", "Div", Name("Int", "x"), Name("Int", "d"))),
                    ExprStmt(Call("None", "__print_int", <<Name("Int", "y")>>)) >>) >>) :
        a \in DivInts, b \in DivInts }

\* two functions: what the second may see of the first
FirstFunctions ==
    { FuncDef("f", << <<"a", "Int">> >>, "None", << AssignX >>),
      FuncDef("f", <<>>, "Int", << Return(Name("Int", "zz")) >>),
      FuncDef("f", <<>>, "None", << Assignment("v", "Int", Literal("Int", <<"x">>)) >>),
      FuncDef("f", <<>>, "Int", << AssignX, Return(Name("Int", "x")) >>),
      FuncDef("f", <<>>, "None", << AssignDiv >>),
      FuncDef("f", <<>>, "Int", << Return(Call("Int", "g", <<>>)) >>),
      FuncDef("f", <<>>, "Int", << Return(Call("Int", "f", <<>>)) >>) }

SecondFunctions ==
    { FuncDef("g", <<>>, "Int", << Return(Name("Int", "x")) >>),
      FuncDef("g", <<>>, "Int", << Return(Name("Int", "a")) >>),
      FuncDef("g", <<>>, "Int", << Return(Name("Int", "z")) >>),
      FuncDef("g", << <<"x", "Int">> >>, "Int", << Return(Name("Int", "x")) >>),
      FuncDef("g", <<>>, "Int", << AssignX, Return(Name("Int", "x")) >>),
      FuncDef("g", <<>>, "Int", << Return(Call("Int", "f", <<>>)) >>),
      FuncDef("g", <<>>, "Int", << Return(Call("Int", "h", <<>>)) >>),
      FuncDef("f", <<>>, "Int", << Return(Call("Int", "f", <<>>)) >>),
      FuncDef("g", <<>>, "None", << If(BoolLit(TRUE), << AssignDiv >>, <<>>) >>) }

TwoFunctionPrograms ==
    { Program(<<f, g>>) : f \in FirstFunctions, g \in SecondFunctions }

\* arguments of the call programs: bound names, an unbound one, a literal, a call
CallArgs ==
    { Name("Int", "a"), Name("Int", "b"), Name("Int", "zz"), IntLit(1),
      Call("Int", "add", <<Name("Int", "b"), Name("Int", "a")>>) }

\* a function of two parameters whose body is one call of two arguments
CallPrograms ==
    { Program(<< FuncDef("f", << <<"a", "Int">>, <<"b", "Int">> >>, "None",
                         << ExprStmt(Call("Int", fn, <<x, y>>)) >>) >>) :
        fn \in {"add", "nofn"}, x \in CallArgs, y \in CallArgs }

FlushCall == Call("None", "__flush_stdout", <<>>)

\* a call of a function that returns nothing, in each place a statement offers
SentinelPrograms ==
    { Program(<< FuncDef("f", <<>>, "Bool", code) >>) :
        code \in { << ExprStmt(FlushCall) >>,
                   << Assignment("v", "Bool", FlushCall) >>,
                   << Return(FlushCall) >>,
                   << ExprStmt(Call("None", "__print_bool", <<FlushCall>>)) >>,
                   << Return(BinOp("Bool", "Eq", FlushCall, FlushCall)) >>,
                   << If(FlushCall, <<>>, <<>>) >> } }

\* a call of each symbol of the runtime, with arguments of its signature
RuntimeCalls ==
    { Call("None", "__flush_stdout", <<>>),
      Call("None", "__gopanic", <<StrLit>>),
      Call("Int", "add", <<IntLit(1), IntLit(2)>>),
      Call("None", "__print_int", <<IntLit(7)>>),
      Call("None", "__print_bool", <<BoolLit(TRUE)>>),
      Call("None", "__print_float32", <<Literal("Float32", <<"1", ".", "5">>)>>),
      Call("None", "__print_float64", <<Literal("Float64", <<"2", ".", "5">>)>>),
      Call("None", "__print_gostring", <<StrLit>>) }

\* two functions, each calling the runtime
RuntimeCallPrograms ==
    { Program(<< FuncDef("f", <<>>, "None", << ExprStmt(c1) >>),
                 FuncDef("main", <<>>, "None", << ExprStmt(c2) >>) >>) :
        c1 \in RuntimeCalls, c2 \in RuntimeCalls }

\* assignments in a row: fresh names, names read, names and a parameter rebound
StraightStmts ==
    { Assignment("x", "Int", IntLit(2)),
      Assignment("y", "Int", BinOp("Int", "Mul", Name("Int", "x"), IntLit(2))),
      Assignment("x", "Int", BinOp("Int", "Add", Name("Int", "x"), Name("Int", "a"))),
      Assignment("y", "Int", Name("Int", "a")),
      Assignment("a", "Int", BinOp("Int", "Sub", Name("Int", "a"), IntLit(1))) }

StraightPrograms ==
    { Program(<< FuncDef("main", << <<"a", "Int">> >>, "None", <<s1, s2, s3>>) >>) :
        s1 \in StraightStmts, s2 \in StraightStmts, s3 \in StraightStmts }

Say(text) == ExprStmt(Call("None", "__print_gostring", <<Literal("GoString", text)>>))

Five == Literal("Float64", <<"5", ".", "0">>)

\* conditions that hold, that do not, and one that depends on the parameter
RunConds ==
    { BoolLit(TRUE), BoolLit(FALSE),
      BinOp("Bool", "Eq", Five, Five),
      BinOp("Bool", "Neq", Five, Five),
      BinOp("Bool", "Ge", Name("Int", "a"), IntLit(0)) }

\* an If whose branches print, perhaps through an If of their own, then a print
RunIfPrograms ==
    { Program(<< FuncDef("main", << <<"a", "Int">> >>, "None",
                         << If(c, t, e), Say(<<"a", "f", "t", "e", "r">>) >>) >>) :
        c \in RunConds,
        t \in { << Say(<<"g", "o", "o", "d">>) >>, <<>>,
                << If(BinOp("Bool", "Le", Name("Int", "a"), IntLit(0)),
                      << Say(<<"n", "e", "g">>) >>, << Say(<<"p", "o", "s">>) >>),
                   Say(<<"g", "o", "o", "d">>) >> },
        e \in { << Say(<<"o", "o", "p", "s">>) >>, <<>> } }

Programs ==
    BinopPrograms \cup LiteralPrograms \cup ControlPrograms \cup DivPrograms
        \cup TwoFunctionPrograms \cup CallPrograms
        \cup SentinelPrograms \cup RuntimeCallPrograms \cup StraightPrograms
        \cup RunIfPrograms

----------------------------------------------------------------------------
(* The state machine: compile_aot *)

ExecIdle ==
    [status |-> "idle", bb |-> 0, ip |-> 0, regs |-> <<>>, mem |-> <<>>,
     stdout |-> <<>>, stderr |-> <<>>, divs |-> <<>>, args |-> <<>>]

\* the Output of the link before there is one
NoLink == [spawned |-> FALSE, status |-> 0, stderr |-> FALSE]

\* compile_aot has gone through one more of its steps
Step(name) == [aot EXCEPT !.steps = Append(@, name)]

\* CodeGen::new and the start of compile_aot
Init ==
    /\ program \in Programs
    /\ stage = "new"
    /\ module = [functions |-> <<>>, blocks |-> <<>>]
    /\ builder = [cursor |-> 0, nextval |-> 1]
    /\ symbol_table = <<>>
    /\ current_function = 0
    /\ fidx = 1
    /\ todo = <<>>
    /\ result = "none"
    /\ events = [binops |-> <<>>, ifs |-> <<>>]
    /\ exec = ExecIdle
    /\ aot = [status |-> "running", steps |-> <<>>, files |-> {},
              build |-> "none", link |-> NoLink]

Commit(self) ==
    /\ module' = self.module
    /\ builder' = self.builder
    /\ symbol_table' = self.symbol_table
    /\ current_function' = self.current_function
    /\ events' = self.events

\* `?`: an Err leaves gen_program at once; compile_aot then panics with it
Proceed(r, rest) ==
    /\ Commit(r.self)
    /\ IF r.res = "ok"
       THEN todo' = rest /\ stage' = stage /\ result' = result
       ELSE /\ todo' = <<>>
            /\ stage' = (IF r.res = PANIC THEN "panicked" ELSE "failed")
            /\ result' = r.res
    /\ UNCHANGED <<program, fidx, exec, aot>>

\* compile_aot: add_runtime(&codegen.module, &context)
AddRuntime ==
    /\ stage = "new"
    /\ Commit(add_runtime(Self))
    /\ stage' = "gen"
    /\ aot' = Step("add_runtime")
    /\ UNCHANGED <<program, fidx, todo, result, exec>>

\* gen_program walking program.functions from its last element
GenFunctionBackwards ==
    /\ stage = "gen" /\ todo = <<>> /\ fidx <= Len(program.functions)
    /\ Commit(gen_function_enter(Self,
            program.functions[Len(program.functions) + 1 - fidx]))
    /\ todo' = StmtFrames(program.functions[Len(program.functions) + 1 - fidx].code)
                 \o << [t |-> "fn_end",
                        return_type |->
                            program.functions[Len(program.functions) + 1 - fidx]
                                .return_type] >>
    /\ UNCHANGED <<program, stage, fidx, result, exec, aot>>

\* gen_program: the next function of the loop; gen_function up to its body
GenFunction ==
    /\ stage = "gen" /\ todo = <<>> /\ fidx <= Len(program.functions)
    /\ Commit(gen_function_enter(Self, program.functions[fidx]))
    /\ todo' = StmtFrames(program.functions[fidx].code)
                 \o << [t |-> "fn_end",
                        return_type |-> program.functions[fidx].return_type] >>
    /\ UNCHANGED <<program, stage, fidx, result, exec, aot>>

\* gen_function after its body; back in the loop of gen_program
GenFunctionExit ==
    /\ stage = "gen" /\ todo # <<>> /\ Head(todo).t = "fn_end"
    /\ Commit(gen_function_exit(Self, Head(todo).return_type))
    /\ todo' = Tail(todo)
    /\ fidx' = fidx + 1
    /\ UNCHANGED <<program, stage, result, exec, aot>>

\* gen_program returns Ok(())
GenProgramOk ==
    /\ stage = "gen" /\ todo = <<>> /\ fidx > Len(program.functions)
    /\ stage' = "generated"
    /\ result' = "ok"
    /\ aot' = Step("gen_program")
    /\ UNCHANGED <<program, module, builder, symbol_table, current_function,
                   fidx, todo, events, exec>>

NextStmt(kind) ==
    /\ stage = "gen" /\ todo # <<>>
    /\ Head(todo).t = "stmt" /\ Head(todo).stmt.kind = kind

GenAssignment ==
    /\ NextStmt("Assignment")
    /\ Proceed(gen_assignment(Self, Head(todo).stmt.name, Head(todo).stmt.var_type,
                              Head(todo).stmt.expr), Tail(todo))

GenReturn ==
    /\ NextStmt("Return")
    /\ Proceed(gen_return(Self, Head(todo).stmt.expr), Tail(todo))

GenExpression ==
    /\ NextStmt("Expression")
    /\ Proceed(gen_expression(Self, Head(todo).stmt.expr), Tail(todo))

\* gen_if entered: the then-block and the rest of gen_if become pending frames
IfFrames(r, st) ==
    IF r.res # "ok" THEN <<>>
    ELSE StmtFrames(st.then_block)
            \o << [t |-> "then_end", id |-> r.val.id, else_bb |-> r.val.else_bb,
                   cont_bb |-> r.val.cont_bb, else_block |-> st.else_block] >>

ProceedIf(r, st, rest) == Proceed(r, IfFrames(r, st) \o rest)

GenIf ==
    /\ NextStmt("If")
    /\ ProceedIf(gen_if_enter(Self, Head(todo).stmt.cond, Head(todo).stmt.else_block),
                 Head(todo).stmt, Tail(todo))

GenIfThenEnd ==
    /\ stage = "gen" /\ todo # <<>> /\ Head(todo).t = "then_end"
    /\ Commit(gen_if_then_end(Self, Head(todo)))
    /\ todo' = StmtFrames(Head(todo).else_block)
                 \o << [t |-> "else_end", id |-> Head(todo).id,
                        cont_bb |-> Head(todo).cont_bb] >>
                 \o Tail(todo)
    /\ UNCHANGED <<program, stage, fidx, result, exec, aot>>

GenIfElseEnd ==
    /\ stage = "gen" /\ todo # <<>> /\ Head(todo).t = "else_end"
    /\ Commit(gen_if_else_end(Self, Head(todo)))
    /\ todo' = Tail(todo)
    /\ UNCHANGED <<program, stage, fidx, result, exec, aot>>

----------------------------------------------------------------------------
(* lib.rs: compile_aot after gen_program *)

\* format!("output/{}.o", program.package_name)
ObjPath == <<"output/", program.package_name, ".o">>

\* the archive the link names: runtime/target/release/libruntime.a
RuntimeArchive == <<"runtime/target/release/libruntime.a">>

\* out_path, as main passes it
OutPath == <<"output/main">>

LastStep == IF aot.steps = <<>> THEN "" ELSE aot.steps[Len(aot.steps)]

\* compile_aot is at the statement that follows `step`
After(step) == aot.status = "running" /\ LastStep = step

AotUnchanged ==
    UNCHANGED <<program, stage, module, builder, symbol_table, current_function,
                fidx, todo, result, events, exec>>

\* compile_aot dropping the Err of gen_program and going on
AotGoOn ==
    /\ After("add_runtime") /\ stage \in {"failed", "panicked"}
    /\ aot' = Step("gen_program")
    /\ AotUnchanged

\* if let Err(err) = codegen.gen_program(program) { panic!("{}", err) }; a
\* panic inside the generator unwinds through compile_aot the same way
AotPanic ==
    /\ After("add_runtime") /\ stage \in {"failed", "panicked"}
    /\ aot' = [aot EXCEPT !.status = "panicked"]
    /\ AotUnchanged

\* codegen.optimize(OptimizationLevel::Aggressive): the passes keep what the
\* module computes, and the module is kept as generated
Optimize ==
    /\ After("gen_program")
    /\ aot' = Step("optimize")
    /\ AotUnchanged

\* fs::create_dir_all("output/").expect(..)
CreateDir ==
    /\ After("optimize")
    /\ \E ok \in BOOLEAN :
          aot' = IF ok THEN [Step("create_dir_all") EXCEPT !.files = @ \cup {<<"output/">>}]
                 ELSE [Step("create_dir_all") EXCEPT !.status = "panicked"]
    /\ AotUnchanged

\* codegen.to_object_file(..): write_to_file(..).expect(..)
ToObjectFile ==
    /\ After("create_dir_all")
    /\ \E ok \in BOOLEAN :
          aot' = IF ok THEN [Step("to_object_file") EXCEPT !.files = @ \cup {ObjPath}]
                 ELSE [Step("to_object_file") EXCEPT !.status = "panicked"]
    /\ AotUnchanged

\* the runtime build started as soon as the module is optimized
BuildRuntimeEarly ==
    /\ After("optimize")
    /\ \E out \in {"spawn_error", "exit_zero", "exit_nonzero"}, stale \in BOOLEAN :
          aot' = [Step("build_runtime") EXCEPT
                    !.build = out,
                    !.status = IF out = "spawn_error" THEN "panicked" ELSE @,
                    !.files = IF out = "exit_zero" \/ (out = "exit_nonzero" /\ stale)
                              THEN @ \cup {RuntimeArchive} ELSE @]
    /\ AotUnchanged

\* how `cargo build` can end: it did not start, or it ran and exited
BuildOutcomes == {"spawn_error", "exit_zero", "exit_nonzero"}

\* Command::new("cargo")...output(): only Err(err) panics; the exit status
\* and the error stream of a build that ran are not looked at.  A build that
\* fails leaves the archive of an earlier build, if there is one
BuildRuntime ==
    /\ After("to_object_file")
    /\ \E out \in BuildOutcomes, stale \in BOOLEAN :
          aot' = [Step("build_runtime") EXCEPT
                    !.build = out,
                    !.status = IF out = "spawn_error" THEN "panicked" ELSE @,
                    !.files = IF out = "exit_zero" \/ (out = "exit_nonzero" /\ stale)
                              THEN @ \cup {RuntimeArchive} ELSE @]
    /\ AotUnchanged

\* runtime/src/lib.rs: the symbols the archive defines
RuntimeExports ==
    { "__gopanic", "__flush_stdout", "__print_int", "__print_bool",
      "__print_float32", "__print_float64", "__print_gostring" }

\* names the object file defines
Defined == { module.functions[i].name :
               i \in { j \in 1..Len(module.functions) : ~module.functions[j].external } }

\* the linker finds its two inputs, a main, and every function that is called
LinkResolves ==
    /\ {ObjPath, RuntimeArchive} \subseteq aot.files
    /\ "main" \in Defined
    /\ \A b \in 1..Len(module.blocks) :
          \A i \in 1..Len(module.blocks[b].instrs) :
             module.blocks[b].instrs[i].op = "call" =>
                module.blocks[b].instrs[i].callee \in Defined \cup RuntimeExports

\* how `gcc` can end: spawned or not, its exit status, whether it wrote to its
\* error stream; a link that does not resolve exits non-zero with a message
LinkOutcomes ==
    { o \in [spawned : BOOLEAN, status : {0, 1}, stderr : BOOLEAN] :
        /\ ~o.spawned => (o.status = 1 /\ ~o.stderr)
        /\ (o.spawned /\ ~LinkResolves) => (o.status = 1 /\ o.stderr) }

\* Command::new("gcc")...output(): Err(err) panics, a non-empty stderr
\* panics, the exit status is not looked at; gcc writes out_path when it exits 0
LinkRuntime ==
    /\ After("build_runtime")
    /\ \E o \in LinkOutcomes :
          aot' = [Step("link") EXCEPT
                    !.link = o,
                    !.status = IF ~o.spawned \/ o.stderr THEN "panicked" ELSE @,
                    !.files = IF o.spawned /\ o.status = 0 THEN @ \cup {OutPath} ELSE @]
    /\ AotUnchanged

\* codegen.module.print_to_string().to_string()
ReturnIR ==
    /\ After("link")
    /\ aot' = [Step("return") EXCEPT !.status = "returned"]
    /\ AotUnchanged

----------------------------------------------------------------------------
(* The generated program, run: `main` of the linked binary *)

\* the function the binary starts: the one named main
MainFn == get_function(Self, "main")

BlocksOf(fn) == { b \in 1..Len(module.blocks) : module.blocks[b].fn = fn }

\* a block LLVM accepts: one terminator, and it is the last instruction
WellFormedBlock(b) ==
    LET is == module.blocks[b].instrs
    IN /\ is # <<>>
       /\ is[Len(is)].op \in Terminators
       /\ \A i \in 1..(Len(is) - 1) : is[i].op \notin Terminators

\* what the model runs: a verifiable main of integer parameters that calls the
\* run-time library only
Runnable ==
    /\ MainFn # 0
    /\ ~module.functions[MainFn].external
    /\ \A i \in 1..Len(module.functions[MainFn].params) :
          module.functions[MainFn].params[i] = "i64"
    /\ \A b \in BlocksOf(MainFn) :
          /\ WellFormedBlock(b)
          /\ \A i \in 1..Len(module.blocks[b].instrs) :
                LET ins == module.blocks[b].instrs[i]
                IN /\ ins.op = "call" => ins.callee \in RuntimeExports
                   /\ ins.op \notin {"fmul", "fdiv"}

\* a run-time value: an integer (or a float in tenths, or an address), or bytes
RV(i, str) == [i |-> i, s |-> str]

Running == exec.status = "running"

Cur == module.blocks[exec.bb].instrs[exec.ip]

IsDefined(val) == val.k # "reg" \/ val.v \in DOMAIN exec.regs

Eval(val) ==
    CASE val.k = "reg" -> exec.regs[val.v]
      [] val.k = "str" -> RV(0, val.s)
      [] val.k = "param" -> RV(exec.args[val.v], <<>>)
      [] OTHER -> RV(val.v, <<>>)

\* two's complement wrap-around to the width of the type
Wrap(ty, x) ==
    IF ty = "i64" THEN ((x - MinInt) % (2 ^ IntBits)) + MinInt
    ELSE IF ty = "i1" THEN x % 2
    ELSE x

Abs(x) == IF x < 0 THEN -x ELSE x

\* LLVM sdiv where it is defined: the quotient rounded toward zero
SDiv(a, b) == IF (a < 0) = (b < 0) THEN Abs(a) \div Abs(b) ELSE -(Abs(a) \div Abs(b))

\* LLVM sdiv is undefined behaviour for a zero divisor and for overflow
SDivUndefined(a, b) == b = 0 \/ (a = MinInt /\ b = -1)

Compare(pred, a, b) ==
    CASE pred \in {"EQ", "OEQ"} -> a = b
      [] pred \in {"NE", "ONE"} -> a # b
      [] pred \in {"SGT", "OGT"} -> a > b
      [] pred \in {"SLT", "OLT"} -> a < b
      [] pred \in {"SGE", "OGE"} -> a >= b
      [] pred \in {"SLE", "OLE"} -> a <= b

Arith(ins, a, b) ==
    CASE ins.op \in {"add", "fadd"} -> Wrap(ins.dst.ty, a + b)
      [] ins.op \in {"sub", "fsub"} -> Wrap(ins.dst.ty, a - b)
      [] ins.op = "mul" -> Wrap(ins.dst.ty, a * b)
      [] ins.op \in {"icmp", "fcmp"} -> IF Compare(ins.pred, a, b) THEN 1 ELSE 0

SetReg(id, rv) ==
    [n \in DOMAIN exec.regs \cup {id} |-> IF n = id THEN rv ELSE exec.regs[n]]

SetMem(addr, rv) ==
    [n \in DOMAIN exec.mem \cup {addr} |-> IF n = addr THEN rv ELSE exec.mem[n]]

GenUnchanged ==
    UNCHANGED <<program, stage, module, builder, symbol_table, current_function,
                fidx, todo, result, events, aot>>

\* integers a caller may pass
ArgValues == {-3, 5}

\* the binary is started: main is entered with the arguments of its caller
RunMain ==
    /\ aot.status = "returned" /\ OutPath \in aot.files
    /\ exec.status = "idle" /\ Runnable
    /\ \E args \in [1..Len(module.functions[MainFn].params) -> ArgValues] :
       exec' = [exec EXCEPT !.status = "running", !.ip = 1, !.args = args,
                   !.bb = CHOOSE b \in BlocksOf(MainFn) : module.blocks[b].label = "entry"]
    /\ GenUnchanged

ExecAlloca ==
    /\ Running /\ Cur.op = "alloca"
    /\ exec' = [exec EXCEPT !.regs = SetReg(Cur.dst.v, RV(Cur.dst.v, <<>>)), !.ip = @ + 1]
    /\ GenUnchanged

ExecStore ==
    /\ Running /\ Cur.op = "store" /\ IsDefined(Cur.a) /\ IsDefined(Cur.b)
    /\ exec' = [exec EXCEPT !.mem = SetMem(Eval(Cur.a).i, Eval(Cur.b)), !.ip = @ + 1]
    /\ GenUnchanged

ExecLoad ==
    /\ Running /\ Cur.op = "load" /\ IsDefined(Cur.a)
    /\ Eval(Cur.a).i \in DOMAIN exec.mem
    /\ exec' = [exec EXCEPT !.regs = SetReg(Cur.dst.v, exec.mem[Eval(Cur.a).i]),
                            !.ip = @ + 1]
    /\ GenUnchanged

ExecArith ==
    /\ Running /\ Cur.op \in {"add", "sub", "mul", "icmp", "fadd", "fsub", "fcmp"}
    /\ IsDefined(Cur.a) /\ IsDefined(Cur.b)
    /\ exec' = [exec EXCEPT
                  !.regs = SetReg(Cur.dst.v, RV(Arith(Cur, Eval(Cur.a).i, Eval(Cur.b).i), <<>>)),
                  !.ip = @ + 1]
    /\ GenUnchanged

\* sdiv with defined behaviour
ExecDiv ==
    /\ Running /\ Cur.op = "sdiv" /\ IsDefined(Cur.a) /\ IsDefined(Cur.b)
    /\ ~SDivUndefined(Eval(Cur.a).i, Eval(Cur.b).i)
    /\ exec' = [exec EXCEPT
                  !.regs = SetReg(Cur.dst.v, RV(SDiv(Eval(Cur.a).i, Eval(Cur.b).i), <<>>)),
                  !.divs = Append(@, [a |-> Eval(Cur.a).i, b |-> Eval(Cur.b).i]),
                  !.ip = @ + 1]
    /\ GenUnchanged

\* sdiv with undefined behaviour: the machine traps (x86 idiv raises SIGFPE)
ExecDivTrap ==
    /\ Running /\ Cur.op = "sdiv" /\ IsDefined(Cur.a) /\ IsDefined(Cur.b)
    /\ SDivUndefined(Eval(Cur.a).i, Eval(Cur.b).i)
    /\ exec' = [exec EXCEPT !.status = "sigfpe",
                  !.divs = Append(@, [a |-> Eval(Cur.a).i, b |-> Eval(Cur.b).i])]
    /\ GenUnchanged

\* sdiv with undefined behaviour: the machine goes on with some value
\* (the wrapped quotient on AArch64, whatever a folded constant became)
ExecDivAny ==
    /\ Running /\ Cur.op = "sdiv" /\ IsDefined(Cur.a) /\ IsDefined(Cur.b)
    /\ SDivUndefined(Eval(Cur.a).i, Eval(Cur.b).i)
    /\ \E v \in {MinInt, 0} :
          exec' = [exec EXCEPT
                     !.regs = SetReg(Cur.dst.v, RV(v, <<>>)),
                     !.divs = Append(@, [a |-> Eval(Cur.a).i, b |-> Eval(Cur.b).i]),
                     !.ip = @ + 1]
    /\ GenUnchanged

ExecCondBr ==
    /\ Running /\ Cur.op = "condbr" /\ IsDefined(Cur.a)
    /\ exec' = [exec EXCEPT !.bb = IF Eval(Cur.a).i # 0 THEN Cur.t1 ELSE Cur.t2,
                            !.ip = 1]
    /\ GenUnchanged

ExecBr ==
    /\ Running /\ Cur.op = "br"
    /\ exec' = [exec EXCEPT !.bb = Cur.t1, !.ip = 1]
    /\ GenUnchanged

ExecReturn ==
    /\ Running /\ Cur.op = "ret" /\ IsDefined(Cur.a)
    /\ exec' = [exec EXCEPT !.status = "returned"]
    /\ GenUnchanged

\* runtime/src/lib.rs __gopanic: eprintln!("panic: {}", msg); process::abort()
ExecGoPanic ==
    /\ Running /\ Cur.op = "call" /\ Cur.callee = "__gopanic"
    /\ IsDefined(Cur.args[1])
    /\ exec' = [exec EXCEPT !.status = "aborted",
                   !.stderr = @ \o <<"panic: ">> \o Eval(Cur.args[1]).s \o <<"\n">>]
    /\ GenUnchanged

\* what print!("{}", x) writes for the argument of each run-time print function
Printed(callee, rv) ==
    CASE callee = "__print_int" -> IntText(rv.i)
      [] callee = "__print_bool" -> IF rv.i # 0 THEN <<"true">> ELSE <<"false">>
      [] callee = "__print_gostring" -> rv.s
      [] OTHER -> <<"float", rv.i>>

\* runtime/src/lib.rs __print_*: print!("{}", x)
ExecPrint ==
    /\ Running /\ Cur.op = "call"
    /\ Cur.callee \in RuntimeExports \ {"__gopanic", "__flush_stdout"}
    /\ IsDefined(Cur.args[1])
    /\ exec' = [exec EXCEPT !.stdout = @ \o Printed(Cur.callee, Eval(Cur.args[1])),
                            !.ip = @ + 1]
    /\ GenUnchanged

\* runtime/src/lib.rs __flush_stdout: io::stdout().flush() succeeds, or the
\* runtime panics with "unable to flush to stdout"
ExecFlush ==
    /\ Running /\ Cur.op = "call" /\ Cur.callee = "__flush_stdout"
    /\ \E flushed \in BOOLEAN :
          exec' = IF flushed
                  THEN [exec EXCEPT !.ip = @ + 1]
                  ELSE [exec EXCEPT !.status = "aborted",
                           !.stderr = @ \o <<"panic: ", "unable to flush to stdout", "\n">>]
    /\ GenUnchanged

\* an operand whose definition was never executed: undefined behaviour
ExecUndefined ==
    /\ Running
    /\ \/ ~IsDefined(Cur.a) \/ ~IsDefined(Cur.b)
       \/ \E i \in 1..Len(Cur.args) : ~IsDefined(Cur.args[i])
       \/ Cur.op = "load" /\ IsDefined(Cur.a) /\ Eval(Cur.a).i \notin DOMAIN exec.mem
       \/ Cur.op = "unreachable"
    /\ exec' = [exec EXCEPT !.status = "undefined"]
    /\ GenUnchanged

Next ==
    \/ AddRuntime
    \/ GenFunction
    \/ GenFunctionExit
    \/ GenProgramOk
    \/ GenAssignment
    \/ GenReturn
    \/ GenExpression
    \/ GenIf
    \/ GenIfThenEnd
    \/ GenIfElseEnd
    \/ AotPanic
    \/ Optimize
    \/ CreateDir
    \/ ToObjectFile
    \/ BuildRuntime
    \/ LinkRuntime
    \/ ReturnIR
    \/ RunMain
    \/ ExecAlloca
    \/ ExecStore
    \/ ExecLoad
    \/ ExecArith
    \/ ExecDiv
    \/ ExecDivTrap
    \/ ExecDivAny
    \/ ExecCondBr
    \/ ExecBr
    \/ ExecReturn
    \/ ExecGoPanic
    \/ ExecPrint
    \/ ExecFlush
    \/ ExecUndefined

Spec == Init /\ [][Next]_vars

----------------------------------------------------------------------------
(* Properties of the generated module and of its run *)

IntPair(ev) == KindPair(ev.lhs, ev.rhs) = <<"IntValue", "IntValue">>

FloatPair(ev) == KindPair(ev.lhs, ev.rhs) = <<"FloatValue", "FloatValue">>

BinopEvents == { events.binops[i] : i \in 1..Len(events.binops) }

IsGoPanicCall(ins) ==
    /\ ins.op = "call" /\ ins.callee = "__gopanic"
    /\ ins.args = <<build_global_string_ptr(ERR_DIV_BY_ZERO)>>

\* the diamond one integer division must have left in the module
DivDiamond(ev) ==
    LET test == module.blocks[ev.test_bb].instrs
        n == Len(test)
        panic_bb == ev.nblocks + 1
        cont_bb == ev.nblocks + 2
    IN /\ Len(module.blocks) >= cont_bb
       /\ module.blocks[panic_bb].fn = module.blocks[ev.test_bb].fn
       /\ module.blocks[cont_bb].fn = module.blocks[ev.test_bb].fn
       /\ n >= 2
       /\ test[n - 1].op = "icmp" /\ test[n - 1].pred = "NE"
       /\ test[n - 1].a = ev.rhs /\ test[n - 1].b = ConstInt("i64", 0)
       /\ test[n].op = "condbr" /\ test[n].a = test[n - 1].dst
       /\ test[n].t1 = cont_bb /\ test[n].t2 = panic_bb
       /\ Len(module.blocks[panic_bb].instrs) = 2
       /\ IsGoPanicCall(module.blocks[panic_bb].instrs[1])
       /\ module.blocks[panic_bb].instrs[2].op = "unreachable"
       /\ module.blocks[cont_bb].instrs # <<>>
       /\ module.blocks[cont_bb].instrs[1].op = "sdiv"
       /\ module.blocks[cont_bb].instrs[1].a = ev.lhs
       /\ module.blocks[cont_bb].instrs[1].b = ev.rhs
       /\ module.blocks[cont_bb].instrs[1].dst = ev.out
       /\ module.blocks[panic_bb].label = "panic_bb"
       /\ module.blocks[cont_bb].label = "cont_bb"

\* C1: every integer/integer Div leaves a test (divisor # 0) that ends its
\* block with a conditional branch to two new blocks: the trap block holds
\* exactly the call of __gopanic with the division-by-zero message and
\* unreachable (no branch back), the continuation block starts with the sdiv
C1_DivGuardDiamond ==
    /\ \A ev \in BinopEvents : (ev.op = "Div" /\ IntPair(ev)) => DivDiamond(ev)
    /\ \A b \in 1..Len(module.blocks) :
          \A i \in 1..Len(module.blocks[b].instrs) :
             module.blocks[b].instrs[i].op = "sdiv" =>
                i = 1 /\ module.blocks[b].label = "cont_bb"

C1_Witness ==
    /\ stage = "generated"
    /\ \E ev \in BinopEvents : ev.op = "Div" /\ IntPair(ev) /\ ev.res = "ok"

\* the quotient of a by b rounded toward zero, as arithmetic defines it
TruncDiv(a, b) ==
    CHOOSE q \in -(2 ^ IntBits)..(2 ^ IntBits) :
        /\ Abs(q) * Abs(b) <= Abs(a)
        /\ Abs(a) - Abs(q) * Abs(b) < Abs(b)
        /\ (q # 0 => ((q < 0) <=> ((a < 0) # (b < 0))))

RECURSIVE HasItem(_, _)
HasItem(seq, x) == seq # <<>> /\ (Head(seq) = x \/ HasItem(Tail(seq), x))

\* the dividend and the divisor a division program writes as literals
Dividend == parse_int(program.functions[1].code[1].expr.value).v

Divisor == parse_int(program.functions[1].code[2].expr.value).v

\* C2: a run of `y = x / d; print(y)` aborts with the division-by-zero
\* diagnostic and no output when d is zero, and otherwise returns having
\* computed the truncating quotient, for every dividend and divisor
C2_DivisionResult ==
    (program \in DivPrograms /\ exec.status \notin {"idle", "running"}) =>
        IF Divisor = 0
        THEN /\ exec.status = "aborted"
             /\ HasItem(exec.stderr, ERR_DIV_BY_ZERO[1])
             /\ exec.stdout = <<>>
        ELSE /\ exec.status = "returned"
             /\ exec.stdout = IntText(TruncDiv(Dividend, Divisor))

IfEvents == { events.ifs[i] : i \in 1..Len(events.ifs) }

\* the last instruction of a block, or a placeholder if the block is empty
LastInstr(b) ==
    IF module.blocks[b].instrs = <<>>
    THEN Instr("empty", "", NoValue, NoValue, NoValue, 0, 0, "", <<>>)
    ELSE module.blocks[b].instrs[Len(module.blocks[b].instrs)]

IsBranchTo(ins, target) == ins.op = "br" /\ ins.t1 = target

Labelled(label) == { b \in 1..Len(module.blocks) : module.blocks[b].label = label }

\* the successors of a block: the targets of its last instruction
Succ(b) ==
    IF module.blocks[b].instrs = <<>> THEN {}
    ELSE IF LastInstr(b).op = "br" THEN {LastInstr(b).t1}
    ELSE IF LastInstr(b).op = "condbr" THEN {LastInstr(b).t1, LastInstr(b).t2}
    ELSE {}

RECURSIVE ReachFrom(_)
ReachFrom(set) ==
    IF (UNION { Succ(b) : b \in set }) \subseteq set THEN set
    ELSE ReachFrom(set \cup UNION { Succ(b) : b \in set })

\* C3: every If, an empty else-block included, owns one then, one else and
\* one continuation block; the condition's block ends with the conditional
\* branch to {then, else}; the then-path and the else-path each end with an
\* unconditional branch to that continuation block, which both paths reach
C3_IfMergesBothPaths ==
    /\ Cardinality(Labelled("then_bb")) = Len(events.ifs)
    /\ Cardinality(Labelled("else_bb")) = Len(events.ifs)
    /\ Cardinality(Labelled("cont_bb")) =
          Len(events.ifs) + Cardinality(Labelled("panic_bb"))
    /\ \A ev \in IfEvents :
          /\ module.blocks[ev.then_bb].label = "then_bb"
          /\ module.blocks[ev.else_bb].label = "else_bb"
          /\ module.blocks[ev.cont_bb].label = "cont_bb"
          /\ LastInstr(ev.cond_bb).op = "condbr"
          /\ LastInstr(ev.cond_bb).t1 = ev.then_bb
          /\ LastInstr(ev.cond_bb).t2 = ev.else_bb
          /\ ev.then_end # 0 => IsBranchTo(LastInstr(ev.then_end), ev.cont_bb)
          /\ ev.else_end # 0 =>
                /\ IsBranchTo(LastInstr(ev.else_end), ev.cont_bb)
                /\ ev.then_end # 0
                /\ ev.cont_bb \in ReachFrom({ev.then_bb})
                /\ ev.cont_bb \in ReachFrom({ev.else_bb})

C3_Witness ==
    /\ stage = "generated"
    /\ \E ev \in IfEvents : ev.else_empty /\ ev.else_end # 0
    /\ Len(events.ifs) >= 2

\* C4: no block holds an instruction after a return
C4_NothingAfterReturn ==
    \A b \in 1..Len(module.blocks) :
        \A i \in 1..(Len(module.blocks[b].instrs) - 1) :
            module.blocks[b].instrs[i].op # "ret"

RECURSIVE ReturnsOnEveryPath(_)
\* the statements of a block return whatever path is taken
ReturnsOnEveryPath(block) ==
    /\ block # <<>>
    /\ \/ Head(block).kind = "Return"
       \/ /\ Head(block).kind = "If"
          /\ ReturnsOnEveryPath(Head(block).then_block)
          /\ ReturnsOnEveryPath(Head(block).else_block)
       \/ ReturnsOnEveryPath(Tail(block))

IsVoidReturn(ins) == ins.op = "ret" /\ ins.a = NoValue

VoidReturns ==
    UNION { { <<b, i>> : i \in { j \in 1..Len(module.blocks[b].instrs) :
                                    IsVoidReturn(module.blocks[b].instrs[j]) } } :
            b \in 1..Len(module.blocks) }

\* C5: a function without a return type ends, at the final cursor, with one
\* no-value return, unless its body already returns on every path, and then
\* none is appended
C5_ImplicitReturn ==
    (stage = "generated" /\ Len(program.functions) = 1
        /\ program.functions[1].return_type = "None") =>
        IF ReturnsOnEveryPath(program.functions[1].code)
        THEN VoidReturns = {}
        ELSE /\ Cardinality(VoidReturns) = 1
             /\ IsVoidReturn(LastInstr(builder.cursor))

\* names a function binds itself: its parameters and its assignments
OwnNames(func) ==
    { func.params[i][1] : i \in 1..Len(func.params) }
        \cup { func.code[i].name :
                 i \in { j \in 1..Len(func.code) : func.code[j].kind = "Assignment" } }

\* C6: the symbol table holds bindings of the function being generated only,
\* and a function that returns a name bound only in the function before it
\* fails with UndefinedVariable
C6_FreshSymbolTable ==
    /\ \A n \in DOMAIN symbol_table : symbol_table[n].fn = current_function
    /\ (/\ program \in TwoFunctionPrograms
        /\ stage \in {"generated", "failed"}
        /\ program.functions[2].code[1].kind = "Return"
        /\ program.functions[2].code[1].expr.kind = "Name"
        /\ program.functions[2].code[1].expr.name \notin OwnNames(program.functions[2]))
          => result = ERR_UNDEFINED_VARIABLE

FloatTypes == {"Float32", "Float64"}

\* C7: a BinaryOp of two float values fails with TypeMismatch when one
\* operand is Float32 and the other Float64, and does not when both operands
\* carry the same float type, whatever the operator
C7_MixedFloatWidths ==
    \A ev \in BinopEvents :
        FloatPair(ev) =>
            /\ ({ev.ltag, ev.rtag} = FloatTypes => ev.res = ERR_TYPE_MISMATCH)
            /\ ((ev.ltag = ev.rtag /\ ev.ltag \in FloatTypes) => ev.res # ERR_TYPE_MISMATCH)

C7_Witness ==
    /\ stage = "failed" /\ result = ERR_TYPE_MISMATCH
    /\ \E ev \in BinopEvents :
          FloatPair(ev) /\ {ev.ltag, ev.rtag} = FloatTypes /\ ev.op = "Leq"

SameFloat(ev) == FloatPair(ev) /\ ev.lhs.ty = ev.rhs.ty /\ ev.res = "ok"

\* C8 as stated: the value of a BinaryOp of two Float32 (two Float64) operands
\* is a Float32 (a Float64), whatever the operator
C8_FloatResultType ==
    \A ev \in BinopEvents : SameFloat(ev) => ev.out.ty = ev.lhs.ty

\* C8 amended: it is the operands' float type for Add, Sub, Mul and Div, and
\* the 1-bit boolean for the six comparisons
C8_FloatResultTypeByOperator ==
    \A ev \in BinopEvents :
        SameFloat(ev) =>
            ev.out.ty = (IF ev.op \in ArithOps THEN ev.lhs.ty ELSE "i1")

C8_Witness ==
    /\ stage = "generated"
    /\ \E ev \in BinopEvents : SameFloat(ev) /\ ev.lhs.ty = "f32" /\ ev.op = "Add"
    /\ \E ev \in BinopEvents : SameFloat(ev) /\ ev.lhs.ty = "f32" /\ ev.op = "Eq"

\* C9: a BinaryOp whose operand values are neither two integers nor two
\* floats fails with UnsupportedOperation and emits nothing itself
C9_UnsupportedPairs ==
    \A ev \in BinopEvents :
        (~IntPair(ev) /\ ~FloatPair(ev)) => (ev.res = ERR_UNSUPPORTED /\ ev.own = 0)

C9_Witness ==
    /\ stage = "failed" /\ result = ERR_UNSUPPORTED
    /\ \E ev \in BinopEvents :
          KindPair(ev.lhs, ev.rhs) = <<"IntValue", "FloatValue">> /\ ev.op = "Eq"

\* the declarations a call may name: the runtime's and the program's own
Signatures(prog) ==
    RuntimeDecls \o
        [ i \in 1..Len(prog.functions) |->
            [name |-> prog.functions[i].name,
             ret |-> llvm_ret(prog.functions[i].return_type),
             params |-> [ j \in 1..Len(prog.functions[i].params) |->
                            to_llvm(prog.functions[i].params[j][2]) ]] ]

Declared(sigs, f) == { i \in 1..Len(sigs) : sigs[i].name = f }

LiteralOk(e) ==
    CASE e.expr_type = "Int" -> parse_int(e.value).ok
      [] e.expr_type \in FloatTypes -> parse_float(e.value).ok
      [] e.expr_type = "Bool" -> parse_uint(e.value).ok /\ parse_uint(e.value).v \in {0, 1}
      [] OTHER -> TRUE

Bind(env, n, ty) == [ m \in DOMAIN env \cup {n} |-> IF m = n THEN ty ELSE env[m] ]

RECURSIVE TypeOf(_, _, _)
\* the type of an expression whose tags agree with its parts, "Error" if none:
\* a name has its variable's type, the operands of a BinaryOp have one same
\* numeric type (or are two booleans tested for equality), an arithmetic
\* BinaryOp has that type and a comparison is a Bool, a call matches its callee
TypeOf(sigs, env, e) ==
    CASE e.kind = "Literal" -> IF LiteralOk(e) THEN e.expr_type ELSE "Error"
      [] e.kind = "Name" ->
            IF e.name \in DOMAIN env /\ env[e.name] = e.expr_type
            THEN e.expr_type ELSE "Error"
      [] e.kind = "BinaryOp" ->
            IF /\ TypeOf(sigs, env, e.left) = TypeOf(sigs, env, e.right)
               /\ \/ TypeOf(sigs, env, e.left) \in {"Int", "Float32", "Float64"}
                  \/ TypeOf(sigs, env, e.left) = "Bool" /\ e.op \in {"Eq", "Neq"}
               /\ e.expr_type =
                    (IF e.op \in ArithOps THEN TypeOf(sigs, env, e.left) ELSE "Bool")
            THEN e.expr_type ELSE "Error"
      [] e.kind = "Call" ->
            IF \E i \in Declared(sigs, e.func) :
                  /\ sigs[i].ret = llvm_ret(e.expr_type)
                  /\ Len(sigs[i].params) = Len(e.args)
                  /\ \A j \in 1..Len(e.args) :
                        /\ TypeOf(sigs, env, e.args[j]) \notin {"Error", "None"}
                        /\ to_llvm(TypeOf(sigs, env, e.args[j])) = sigs[i].params[j]
            THEN e.expr_type ELSE "Error"

RECURSIVE WellTypedBlock(_, _, _, _)
\* the statements of a block type-check in order under the names in scope
WellTypedBlock(sigs, env, ret, block) ==
    \/ block = <<>>
    \/ /\ block # <<>>
       /\ CASE Head(block).kind = "Assignment" ->
                  /\ TypeOf(sigs, env, Head(block).expr) = Head(block).var_type
                  /\ WellTypedBlock(sigs, Bind(env, Head(block).name, Head(block).var_type),
                                    ret, Tail(block))
            [] Head(block).kind = "If" ->
                  /\ TypeOf(sigs, env, Head(block).cond) = "Bool"
                  /\ WellTypedBlock(sigs, env, ret, Head(block).then_block)
                  /\ WellTypedBlock(sigs, env, ret, Head(block).else_block)
                  /\ WellTypedBlock(sigs, env, ret, Tail(block))
            [] Head(block).kind = "Return" ->
                  /\ ret # "None"
                  /\ TypeOf(sigs, env, Head(block).expr) = ret
                  /\ WellTypedBlock(sigs, env, ret, Tail(block))
            [] OTHER ->
                  /\ TypeOf(sigs, env, Head(block).expr) # "Error"
                  /\ WellTypedBlock(sigs, env, ret, Tail(block))

ParamEnv(func) ==
    [ n \in { func.params[i][1] : i \in 1..Len(func.params) } |->
        func.params[CHOOSE i \in 1..Len(func.params) : func.params[i][1] = n][2] ]

WellTyped(prog) ==
    \A i \in 1..Len(prog.functions) :
        WellTypedBlock(Signatures(prog), ParamEnv(prog.functions[i]),
                       prog.functions[i].return_type, prog.functions[i].code)

RECURSIVE DividesIn(_)
\* the expression holds a BinaryOp Div
DividesIn(e) ==
    CASE e.kind = "BinaryOp" -> e.op = "Div" \/ DividesIn(e.left) \/ DividesIn(e.right)
      [] e.kind = "Call" -> \E j \in 1..Len(e.args) : DividesIn(e.args[j])
      [] OTHER -> FALSE

RECURSIVE DividesInBlock(_)
DividesInBlock(block) ==
    /\ block # <<>>
    /\ \/ DividesInBlock(Tail(block))
       \/ IF Head(block).kind = "If"
          THEN \/ DividesIn(Head(block).cond)
               \/ DividesInBlock(Head(block).then_block)
               \/ DividesInBlock(Head(block).else_block)
          ELSE DividesIn(Head(block).expr)

NoDivision(prog) ==
    \A i \in 1..Len(prog.functions) : ~DividesInBlock(prog.functions[i].code)

----------------------------------------------------------------------------
(* Calls *)

CallSites ==
    { c \in UNION { {b} \X (1..Len(module.blocks[b].instrs)) :
                      b \in 1..Len(module.blocks) } :
        module.blocks[c[1]].instrs[c[2]].op = "call" }

\* where the instruction defining a register stands
DefAt(v) ==
    CHOOSE p \in UNION { {b} \X (1..Len(module.blocks[b].instrs)) :
                           b \in 1..Len(module.blocks) } :
        module.blocks[p[1]].instrs[p[2]].dst = v

\* emitted earlier within one expression: an earlier block, or earlier in the block
Before(p, q) == p[1] < q[1] \/ (p[1] = q[1] /\ p[2] < q[2])

RECURSIVE NamesRead(_)
\* the names an expression reads, in the order of the source text
NamesRead(e) ==
    CASE e.kind = "Name" -> <<e.name>>
      [] e.kind = "BinaryOp" -> NamesRead(e.left) \o NamesRead(e.right)
      [] e.kind = "Call" ->
            IF e.args = <<>> THEN <<>>
            ELSE NamesRead(Head(e.args)) \o NamesRead([e EXCEPT !.args = Tail(@)])
      [] OTHER -> <<>>

RECURSIVE CallsIn(_)
\* how many calls an expression holds
CallsIn(e) ==
    CASE e.kind = "Call" ->
            IF e.args = <<>> THEN 1
            ELSE CallsIn(Head(e.args)) + CallsIn([e EXCEPT !.args = Tail(@)])
      [] e.kind = "BinaryOp" -> CallsIn(e.left) + CallsIn(e.right)
      [] OTHER -> 0

RECURSIVE UpToUnbound(_, _)
\* the arguments before the first one that reads a name outside of `bound`
UpToUnbound(args, bound) ==
    IF args = <<>> THEN <<>>
    ELSE IF \E i \in 1..Len(NamesRead(Head(args))) : NamesRead(Head(args))[i] \notin bound
    THEN <<>>
    ELSE <<Head(args)>> \o UpToUnbound(Tail(args), bound)

\* the body of a call program: a call of program.functions[1]'s parameters
TheCall == program.functions[1].code[1].expr

\* the arguments of TheCall that generate, as a call of their own
Generated == [TheCall EXCEPT !.args = UpToUnbound(@, OwnNames(program.functions[1]))]

EntryLoads == SelectSeq(module.blocks[1].instrs, LAMBDA ins : ins.op = "load")

\* the names the loads of the entry block read, in the order of the block
LoadedNames ==
    [ i \in 1..Len(EntryLoads) |->
        CHOOSE n \in DOMAIN symbol_table : symbol_table[n] = EntryLoads[i].a ]

EntryCalls == SelectSeq(module.blocks[1].instrs, LAMBDA ins : ins.op = "call")

\* C11: a call of an undeclared name fails with UndefinedFunction before any
\* argument is generated; otherwise the arguments are generated from left to
\* right, stopping at the first that fails, and the call instruction is
\* emitted once, after the last argument, with the values in argument order
C11_CallOrder ==
    /\ \A c \in CallSites :
          \A j \in 1..Len(module.blocks[c[1]].instrs[c[2]].args) :
             module.blocks[c[1]].instrs[c[2]].args[j].k = "reg" =>
                /\ Before(DefAt(module.blocks[c[1]].instrs[c[2]].args[j]), c)
                /\ \A k \in (j + 1)..Len(module.blocks[c[1]].instrs[c[2]].args) :
                      module.blocks[c[1]].instrs[c[2]].args[k].k = "reg" =>
                         Before(DefAt(module.blocks[c[1]].instrs[c[2]].args[j]),
                                DefAt(module.blocks[c[1]].instrs[c[2]].args[k]))
    /\ (program \in CallPrograms /\ stage \notin {"new", "gen"}) =>
          IF Declared(RuntimeDecls, TheCall.func) = {}
          THEN /\ result = ERR_UNDEFINED_FUNCTION
               /\ EntryLoads = <<>> /\ EntryCalls = <<>>
          ELSE /\ LoadedNames = NamesRead(Generated)
               /\ IF Len(Generated.args) < Len(TheCall.args)
                  THEN /\ result = ERR_UNDEFINED_VARIABLE
                       /\ Len(EntryCalls) = CallsIn(Generated) - 1
                  ELSE /\ result = "ok"
                       /\ Len(EntryCalls) = CallsIn(TheCall)
                       /\ EntryCalls[Len(EntryCalls)].callee = TheCall.func
                       /\ Len(EntryCalls[Len(EntryCalls)].args) = Len(TheCall.args)

C11_Witness ==
    /\ program \in CallPrograms /\ stage = "generated"
    /\ Len(EntryLoads) = 3 /\ Len(EntryCalls) = 2
    /\ TheCall.args[2].kind = "Call"

AllInstrs ==
    UNION { { module.blocks[b].instrs[i] : i \in 1..Len(module.blocks[b].instrs) } :
            b \in 1..Len(module.blocks) }

\* the value is an operand of the instruction
Uses(ins, v) == ins.a = v \/ ins.b = v \/ \E j \in 1..Len(ins.args) : ins.args[j] = v

\* C12: in a program whose only boolean constants are the values gen_call
\* yields for calls that return nothing, no instruction has the constant
\* true as an operand: it is not stored, returned, passed, compared or
\* branched on
C12_SentinelUnconsumed ==
    program \in SentinelPrograms =>
        \A ins \in AllInstrs : ~Uses(ins, ConstInt("i1", 1))

----------------------------------------------------------------------------
(* Failures *)

\* the text of a literal parses as its type demands (a string always does)
Parses(e) ==
    CASE e.expr_type = "Int" -> parse_int(e.value).ok
      [] e.expr_type \in FloatTypes -> parse_float(e.value).ok
      [] e.expr_type = "Bool" -> parse_uint(e.value).ok
      [] OTHER -> TRUE

\* C13: generation never aborts the process: every failure leaves
\* gen_program as an Err value, that of a literal whose text does not parse
\* under its type included
C13_FailuresAreTyped ==
    /\ stage # "panicked"
    /\ (/\ program \in LiteralPrograms
        /\ ~Parses(program.functions[1].code[1].expr)
        /\ stage \notin {"new", "gen"})
          => (stage = "failed" /\ result \notin {"ok", "none", PANIC})

\* functions the module defines, the declarations of the runtime apart
DefinedCount ==
    Cardinality({ i \in 1..Len(module.functions) : ~module.functions[i].external })

\* C14: once a function has failed to generate, no function after it is ever
\* generated, and compile_aot does nothing more: no optimization, no
\* directory or object file, no runtime build, no link, no run
C14_FailureAbortsAll ==
    stage \in {"failed", "panicked"} =>
        /\ result \notin {"ok", "none"}
        /\ todo = <<>>
        /\ DefinedCount = fidx
        /\ aot.steps = <<"add_runtime">>
        /\ aot.files = {}
        /\ aot.status # "returned"
        /\ exec = ExecIdle

C14_Witness ==
    /\ stage = "failed" /\ aot.status = "panicked"
    /\ fidx = 1 /\ Len(program.functions) = 2

----------------------------------------------------------------------------
(* compile_aot *)

Did(step) == \E i \in 1..Len(aot.steps) : aot.steps[i] = step

\* C15: compile_aot panics as soon as the runtime build or the link has
\* exited non-zero or written to its error stream, and returns only after a
\* build and a link that both succeeded, with the executable at out_path
C15_ToolFailuresAreFatal ==
    /\ (Did("build_runtime") /\ aot.build # "exit_zero") => aot.status = "panicked"
    /\ (Did("link") /\ (~aot.link.spawned \/ aot.link.status # 0 \/ aot.link.stderr))
          => aot.status = "panicked"
    /\ aot.status = "returned" =>
          /\ aot.build = "exit_zero"
          /\ aot.link.spawned /\ aot.link.status = 0 /\ ~aot.link.stderr
          /\ OutPath \in aot.files

\* the steps of compile_aot, in the order of its text
StepOrder ==
    << "add_runtime", "gen_program", "optimize", "to_object_file",
       "build_runtime", "link", "return" >>

\* C16: the steps taken so far are the first ones of: declare the runtime,
\* generate, optimize, write output/<package_name>.o, build the runtime,
\* link to out_path, return; generation runs between the first two only, and
\* each file is on disk only after the step that writes it
C16_StepsInOrder ==
    /\ SelectSeq(aot.steps, LAMBDA st : st # "create_dir_all")
          = SubSeq(StepOrder, 1, Len(SelectSeq(aot.steps, LAMBDA st : st # "create_dir_all")))
    /\ stage = "new" <=> aot.steps = <<>>
    /\ stage = "gen" => aot.steps = <<"add_runtime">>
    /\ Did("gen_program") =>
          (stage = "generated" /\ todo = <<>> /\ fidx = Len(program.functions) + 1)
    /\ <<"output/", program.package_name, ".o">> \in aot.files => Did("to_object_file")
    /\ RuntimeArchive \in aot.files => Did("build_runtime")
    /\ OutPath \in aot.files => Did("link")
    /\ aot.status = "returned" <=> Did("return")
    /\ exec.status # "idle" => Did("return")

C16_Witness ==
    /\ aot.status = "returned" /\ Len(aot.steps) = 8
    /\ {ObjPath, RuntimeArchive, OutPath} \subseteq aot.files

RuntimeABI ==
    { "add", "__gopanic", "__flush_stdout", "__print_int", "__print_bool",
      "__print_float32", "__print_float64", "__print_gostring" }

\* C17: from the moment generation starts, every symbol of the runtime ABI
\* is found by name in the module, as a declaration that precedes every
\* function of the program; so the calls to the runtime of any function, and
\* the __gopanic of a division guard, resolve
C17_RuntimeDeclaredFirst ==
    /\ stage = "new" => module.functions = <<>>
    /\ stage # "new" =>
          \A n \in RuntimeABI :
             /\ get_function(Self, n) # 0
             /\ module.functions[get_function(Self, n)].external
             /\ \A i \in 1..Len(module.functions) :
                   ~module.functions[i].external => get_function(Self, n) < i
    /\ program \in RuntimeCallPrograms \cup DivPrograms =>
          result \notin {ERR_UNDEFINED_FUNCTION, PANIC}
    /\ \A ins \in AllInstrs :
          (ins.op = "call" /\ ins.callee \in RuntimeABI) =>
             module.functions[get_function(Self, ins.callee)].external

C17_Witness ==
    /\ program \in RuntimeCallPrograms /\ stage = "generated"
    /\ \E ins \in AllInstrs : ins.op = "call" /\ ins.callee = "__print_gostring"
    /\ \E ins \in AllInstrs : ins.op = "call" /\ ins.callee = "__flush_stdout"

----------------------------------------------------------------------------
(* What the generated code computes *)

RECURSIVE ValueOf(_, _)
\* the integer an expression of literals, names and + - * denotes under env
ValueOf(env, e) ==
    CASE e.kind = "Literal" -> parse_int(e.value).v
      [] e.kind = "Name" -> env[e.name]
      [] e.kind = "BinaryOp" /\ e.op = "Add" ->
            Wrap("i64", ValueOf(env, e.left) + ValueOf(env, e.right))
      [] e.kind = "BinaryOp" /\ e.op = "Sub" ->
            Wrap("i64", ValueOf(env, e.left) - ValueOf(env, e.right))
      [] e.kind = "BinaryOp" /\ e.op = "Mul" ->
            Wrap("i64", ValueOf(env, e.left) * ValueOf(env, e.right))

RECURSIVE EnvAfter(_, _)
\* the values of the names after a row of assignments: each initializer is
\* evaluated under the bindings before it, then its name is (re)bound
EnvAfter(env, block) ==
    IF block = <<>> THEN env
    ELSE EnvAfter(Bind(env, Head(block).name, ValueOf(env, Head(block).expr)),
                  Tail(block))

\* C18: after a run of straight-line assignments, the location of every name
\* holds the value of its last assignment, each initializer having read the
\* values of the assignments before it and, for a name not yet assigned, the
\* incoming parameter
C18_NamesReadLastAssignment ==
    (program \in StraightPrograms /\ exec.status \notin {"idle", "running"}) =>
        /\ exec.status = "returned"
        /\ \A n \in DOMAIN symbol_table :
              exec.mem[symbol_table[n].v] =
                 RV(EnvAfter([m \in {"a"} |-> exec.args[1]],
                             program.functions[1].code)[n], <<>>)

C18_Witness ==
    /\ program \in StraightPrograms /\ exec.status = "returned"
    /\ program.functions[1].code[1].expr = IntLit(2)
    /\ program.functions[1].code[2].expr.kind = "BinaryOp"
    /\ program.functions[1].code[2].name = "y"
    /\ exec.mem[symbol_table["y"].v].i = 4
    /\ program.functions[1].code[3].name = "x"
    /\ program.functions[1].code[3].expr.kind = "BinaryOp"
    /\ exec.mem[symbol_table["x"].v].i = 2 + exec.args[1]

\* the number a literal denotes: an integer, a truth value, or tenths
LiteralValue(e) ==
    IF e.expr_type \in FloatTypes THEN parse_float(e.value).v
    ELSE IF e.expr_type = "Bool" THEN parse_uint(e.value).v
    ELSE parse_int(e.value).v

Operand(env, e) == IF e.kind = "Name" THEN env[e.name] ELSE LiteralValue(e)

\* a condition holds: a true literal, or a comparison of names and literals
Holds(env, c) ==
    CASE c.kind = "Literal" -> LiteralValue(c) = 1
      [] c.kind = "BinaryOp" /\ c.op = "Eq" -> Operand(env, c.left) = Operand(env, c.right)
      [] c.kind = "BinaryOp" /\ c.op = "Neq" -> Operand(env, c.left) # Operand(env, c.right)
      [] c.kind = "BinaryOp" /\ c.op = "Ge" -> Operand(env, c.left) > Operand(env, c.right)
      [] c.kind = "BinaryOp" /\ c.op = "Le" -> Operand(env, c.left) < Operand(env, c.right)

RECURSIVE OutputOf(_, _)
\* what a block of prints and Ifs writes: of an If, the output of the
\* then-block when the condition holds, of the else-block when it does not,
\* and then the output of the statements after it
OutputOf(env, block) ==
    IF block = <<>> THEN <<>>
    ELSE IF Head(block).kind = "If"
    THEN (IF Holds(env, Head(block).cond)
          THEN OutputOf(env, Head(block).then_block)
          ELSE OutputOf(env, Head(block).else_block)) \o OutputOf(env, Tail(block))
    ELSE Head(block).expr.args[1].value \o OutputOf(env, Tail(block))

\* C19: a run of `if c { T } else { E }; print("after")` writes what T
\* writes and nothing of E when c holds, what E writes and nothing of T when
\* it does not, then "after", and returns
C19_OneBranchRuns ==
    (program \in RunIfPrograms /\ exec.status \notin {"idle", "running"}) =>
        /\ exec.status = "returned"
        /\ exec.stdout = OutputOf([m \in {"a"} |-> exec.args[1]],
                                  program.functions[1].code)

C19_Witness ==
    /\ program \in RunIfPrograms /\ exec.status = "returned"
    /\ program.functions[1].code[1].cond = BinOp("Bool", "Eq", Five, Five)
    /\ exec.stdout = <<"g", "o", "o", "d", "a", "f", "t", "e", "r">>
    /\ program.functions[1].code[1].else_block # <<>>

----------------------------------------------------------------------------
(* gen_program as one function of the program *)

\* CodeGen::new: an empty module, an empty symbol table, no current function
NewCodeGen ==
    [module |-> [functions |-> <<>>, blocks |-> <<>>],
     builder |-> [cursor |-> 0, nextval |-> 1],
     symbol_table |-> <<>>, current_function |-> 0,
     events |-> [binops |-> <<>>, ifs |-> <<>>]]

RECURSIVE gen_block(_, _)

\* gen_if after the else-block: branch to cont_bb, cursor to cont_bb
gen_if_end(e, frame) ==
    IF e.res # "ok" THEN e ELSE Ok(gen_if_else_end(e.self, frame), NoValue)

\* gen_if after the then-block: branch to cont_bb, then the else-block
gen_if_else(t, frame, else_block) ==
    IF t.res # "ok" THEN t
    ELSE gen_if_end(gen_block(gen_if_then_end(t.self, frame), else_block), frame)

\* gen_if: condition and blocks made, then the then-block
gen_if(r, st) ==
    IF r.res # "ok" THEN r
    ELSE gen_if_else(gen_block(r.self, st.then_block),
                     IfFrames(r, st)[Len(st.then_block) + 1], st.else_block)

\* gen_statement: match statement { ... }
gen_statement(self, st) ==
    CASE st.kind = "Assignment" -> gen_assignment(self, st.name, st.var_type, st.expr)
      [] st.kind = "Return" -> gen_return(self, st.expr)
      [] st.kind = "Expression" -> gen_expression(self, st.expr)
      [] st.kind = "If" -> gen_if(gen_if_enter(self, st.cond, st.else_block), st)

\* for statement in block { self.gen_statement(statement)?; }
gen_block_rest(r, rest) ==
    IF r.res # "ok" THEN r ELSE gen_block(r.self, rest)

gen_block(self, block) ==
    IF block = <<>> THEN Ok(self, NoValue)
    ELSE gen_block_rest(gen_statement(self, Head(block)), Tail(block))

\* gen_function after self.gen_block(&func.code)?
gen_function_end(r, func) ==
    IF r.res # "ok" THEN r
    ELSE Ok(gen_function_exit(r.self, func.return_type), NoValue)

gen_function(self, func) ==
    gen_function_end(gen_block(gen_function_enter(self, func), func.code), func)

RECURSIVE gen_program(_, _)

\* for func in &program.functions { self.gen_function(func)?; }
gen_program_rest(r, rest) ==
    IF r.res # "ok" THEN r ELSE gen_program(r.self, rest)

gen_program(self, functions) ==
    IF functions = <<>> THEN Ok(self, NoValue)
    ELSE gen_program_rest(gen_function(self, Head(functions)), Tail(functions))

\* the functions the module defines, in the order the module holds them
DefinedFunctions ==
    SelectSeq(module.functions, LAMBDA f : ~f.external)

\* the entry blocks of the module, by the function they belong to
EntryOwners ==
    [i \in 1..Len(SelectSeq(module.blocks, LAMBDA b : b.label = "entry")) |->
        SelectSeq(module.blocks, LAMBDA b : b.label = "entry")[i].fn]

\* C20: the functions are generated in the order the program lists them, each
\* FuncDef becomes exactly one function of the module, with its name, its
\* parameters and one entry block, and the module is the one value gen_program
\* computes from the program: generating the same program again gives it again
C20_ProgramOrder ==
    (stage = "generated") =>
        /\ Len(DefinedFunctions) = Len(program.functions)
        /\ \A i \in 1..Len(program.functions) :
              /\ DefinedFunctions[i].name = program.functions[i].name
              /\ Len(DefinedFunctions[i].params) = Len(program.functions[i].params)
              /\ DefinedFunctions[i].ret = llvm_ret(program.functions[i].return_type)
        /\ EntryOwners = [i \in 1..Len(program.functions) |-> Len(RuntimeDecls) + i]
        /\ gen_program(add_runtime(NewCodeGen), program.functions).self.module = module

\* two functions of different names and signatures, generated
C20_Witness ==
    /\ stage = "generated"
    /\ Len(program.functions) = 2
    /\ program.functions[1].name # program.functions[2].name
    /\ program.functions[1].return_type # program.functions[2].return_type
    /\ DefinedFunctions[2].name = program.functions[2].name

----------------------------------------------------------------------------
(* Where gen_if leaves the cursor *)

RECURSIVE IfCount(_)
\* the If statements of a block, those nested in them included
IfCount(block) ==
    IF block = <<>> THEN 0
    ELSE (IF Head(block).kind = "If"
          THEN 1 + IfCount(Head(block).then_block) + IfCount(Head(block).else_block)
          ELSE 0) + IfCount(Tail(block))

Front(block) == SubSeq(block, 1, Len(block) - 1)

EndsWithIf(block) == block # <<>> /\ block[Len(block)].kind = "If"

\* the instructions of block b that call `callee`
CallsTo(b, callee) ==
    { i \in 1..Len(module.blocks[b].instrs) :
        /\ module.blocks[b].instrs[i].op = "call"
        /\ module.blocks[b].instrs[i].callee = callee }

\* the statement after the If numbered id is a call that has been generated:
\* the call is in the continuation block of that If
FollowerInCont(rest, id) ==
    (/\ stage = "generated" /\ rest # <<>>
     /\ Head(rest).kind = "Expression" /\ Head(rest).expr.kind = "Call")
        => CallsTo(events.ifs[id].cont_bb, Head(rest).expr.func) # {}

RECURSIVE CursorChain(_, _)
\* the If numbered id, in the order gen_if is entered: a branch that ends
\* with an If jumps to cont_bb from the continuation block of that inner If
IfChain(st, id) ==
    id <= Len(events.ifs) =>
        /\ CursorChain(st.then_block, id)
        /\ CursorChain(st.else_block, id + IfCount(st.then_block))
        /\ (EndsWithIf(st.then_block) /\ events.ifs[id].then_end # 0) =>
              events.ifs[id].then_end =
                 events.ifs[id + IfCount(Front(st.then_block)) + 1].cont_bb
        /\ (EndsWithIf(st.else_block) /\ events.ifs[id].else_end # 0) =>
              events.ifs[id].else_end =
                 events.ifs[id + IfCount(st.then_block)
                               + IfCount(Front(st.else_block)) + 1].cont_bb

\* the statements of a block that follows `base` Ifs already entered
CursorChain(block, base) ==
    \/ block = <<>>
    \/ /\ Head(block).kind = "If" =>
              /\ IfChain(Head(block), base + 1)
              /\ (base + 1 <= Len(events.ifs)) => FollowerInCont(Tail(block), base + 1)
       /\ CursorChain(Tail(block), base + IfCount(<<Head(block)>>))

\* gen_if is at its last step: the else-block has been generated
AtIfEnd == stage = "gen" /\ todo # <<>> /\ Head(todo).t = "else_end"

\* C21: when gen_if returns, at any depth and whatever its blocks hold, the
\* cursor is at the end of that If's own continuation block, a block of the
\* current function that nothing has been emitted into yet; the statement
\* after the If is emitted there, and a branch that ends with a nested If
\* jumps to the outer continuation block from the inner continuation block
C21_CursorAtContinuation ==
    /\ [][AtIfEnd =>
            /\ builder'.cursor = events.ifs[Head(todo).id].cont_bb
            /\ module'.blocks[builder'.cursor].label = "cont_bb"
            /\ module'.blocks[builder'.cursor].fn = current_function
            /\ module'.blocks[builder'.cursor].instrs = <<>>]_vars
    /\ [](Len(program.functions) = 1 => CursorChain(program.functions[1].code, 0))

\* a finished If, nested in the then-branch of another, that holds a division
C21_Witness ==
    /\ stage = "generated" /\ Len(events.ifs) >= 2
    /\ EndsWithIf(program.functions[1].code[1].then_block)
    /\ events.ifs[1].then_end = events.ifs[2].cont_bb
    /\ Labelled("panic_bb") # {}
    /\ builder.cursor = events.ifs[1].cont_bb

----------------------------------------------------------------------------
(* The function that new blocks are appended to *)

\* the entry blocks that precede block b
EntriesBefore(b) == { e \in 1..(b - 1) : module.blocks[e].label = "entry" }

\* the function whose body was being generated when block b was appended:
\* the one of the last entry block before b
BuiltAt(b) ==
    module.blocks[CHOOSE e \in EntriesBefore(b) :
                      \A o \in EntriesBefore(b) : o <= e].fn

\* the blocks gen_if and the division guard append
MadeInBody == { b \in 1..Len(module.blocks) : module.blocks[b].label # "entry" }

\* C22: while the body of a function is generated, current_function is set and
\* is that function; so every block that gen_if or the division guard appends
\* belongs to the function being generated then, never to none and never to a
\* function generated before
C22_BlocksUnderCurrentFunction ==
    /\ (stage = "gen" /\ todo # <<>>) =>
          /\ current_function = Len(RuntimeDecls) + fidx
          /\ module.functions[current_function].name = program.functions[fidx].name
          /\ ~module.functions[current_function].external
    /\ \A b \in MadeInBody :
          /\ EntriesBefore(b) # {}
          /\ module.blocks[b].fn = BuiltAt(b)
          /\ module.blocks[b].fn # 0

\* both functions of a program have made blocks, under different functions
C22_Witness ==
    /\ stage = "generated" /\ Len(program.functions) = 2
    /\ \E b \in Labelled("panic_bb") : module.blocks[b].fn = Len(RuntimeDecls) + 1
    /\ \E b \in Labelled("then_bb") : module.blocks[b].fn = Len(RuntimeDecls) + 2
    /\ \E b \in Labelled("panic_bb") : module.blocks[b].fn = Len(RuntimeDecls) + 2

----------------------------------------------------------------------------
(* Storage of a name that is assigned again *)

\* the storage locations allocated in the module
Allocas == { ins \in AllInstrs : ins.op = "alloca" }

\* a body of assignments only: every statement binds a name, nothing branches
StraightLine(func) ==
    \A i \in 1..Len(func.code) : func.code[i].kind = "Assignment"

\* C23: an Assignment to a name the function has already bound rebinds it, so
\* the symbol table holds one location for the name, and reuses its storage:
\* the function allocates one location per name, not one per Assignment
C23_RebindReusesStorage ==
    (/\ stage = "generated" /\ Len(program.functions) = 1
     /\ StraightLine(program.functions[1]))
        => /\ DOMAIN symbol_table = OwnNames(program.functions[1])
           /\ Cardinality(Allocas) = Cardinality(OwnNames(program.functions[1]))

----------------------------------------------------------------------------
(* Where an expression with a division leaves the cursor *)

\* gen_statement is about to generate a statement that is one expression,
\* and generates it without an error
ExprStatementDone ==
    /\ stage = "gen" /\ todo # <<>> /\ Head(todo).t = "stmt"
    /\ Head(todo).stmt.kind \in {"Assignment", "Return", "Expression"}
    /\ stage' = "gen"

\* the integer divisions generated in this step, in the order they were made
NewDivs ==
    SelectSeq(SubSeq(events'.binops, Len(events.binops) + 1, Len(events'.binops)),
              LAMBDA ev : ev.op = "Div" /\ IntPair(ev) /\ ev.res = "ok")

LastDiv == NewDivs[Len(NewDivs)]

\* the instruction that ends a statement of this kind, "" if it has none
ClosingOp(st) ==
    CASE st.kind = "Assignment" -> "store"
      [] st.kind = "Return" -> "ret"
      [] st.expr.kind = "Call" -> "call"
      [] OTHER -> ""

\* the instructions of the block the cursor is in after the step
CursorInstrs == module'.blocks[builder'.cursor].instrs

\* C24: a statement whose expression made integer divisions leaves the cursor
\* in the continuation block of the last of them, a block made in this step;
\* that block starts with the division and holds what the statement emits
\* after it, down to its closing instruction. A statement whose expression
\* made no integer division leaves the cursor where it was and makes no block
C24_CursorAfterDivision ==
    [][ExprStatementDone =>
          IF NewDivs = <<>>
          THEN /\ builder'.cursor = builder.cursor
               /\ Len(module'.blocks) = Len(module.blocks)
          ELSE /\ builder'.cursor = LastDiv.end_bb
               /\ builder'.cursor = Len(module'.blocks)
               /\ builder'.cursor > Len(module.blocks)
               /\ module'.blocks[builder'.cursor].label = "cont_bb"
               /\ CursorInstrs[1].op = "sdiv"
               /\ CursorInstrs[1].dst = LastDiv.out
               /\ ClosingOp(Head(todo).stmt) # "" =>
                     CursorInstrs[Len(CursorInstrs)].op = ClosingOp(Head(todo).stmt)
               /\ \A b \in 1..(Len(module.blocks)) :
                     b # builder.cursor => module'.blocks[b] = module.blocks[b]]_vars

\* a Return of a division of two divisions, generated
C24_Witness ==
    /\ stage = "generated" /\ program \in BinopPrograms
    /\ Cardinality({ ev \in BinopEvents : ev.op = "Div" /\ IntPair(ev) /\ ev.res = "ok" }) >= 3
    /\ LastInstr(builder.cursor).op = "ret"
    /\ module.blocks[builder.cursor].label = "cont_bb"
    /\ module.blocks[builder.cursor].instrs[1].op = "sdiv"

----------------------------------------------------------------------------
(* Blocks of a generated module *)

\* C25: when gen_program succeeds, every block of every generated function
\* ends with exactly one terminator (ret, br, condbr, unreachable) and holds
\* no instruction after it
C25_BlocksWellFormed ==
    (stage = "generated") =>
        \A b \in 1..Len(module.blocks) : WellFormedBlock(b)

----------------------------------------------------------------------------
(* Names bound inside a branch, read after the If *)

\* C26: in the running program every load that follows an If (a load in the
\* continuation block of an If) reads a storage location that the path
\* actually executed has allocated and written; a name assigned in a branch
\* and read after the If never reads the storage of the branch not taken
C26_LoadsReadWrittenStorage ==
    (/\ Running /\ Cur.op = "load"
     /\ exec.bb \in { ev.cont_bb : ev \in IfEvents }) =>
        /\ IsDefined(Cur.a)
        /\ Eval(Cur.a).i \in DOMAIN exec.mem

----------------------------------------------------------------------------
(* Which calls resolve *)

RECURSIVE Callees(_)
\* the names an expression calls
Callees(e) ==
    CASE e.kind = "Call" ->
            {e.func} \cup UNION { Callees(e.args[j]) : j \in 1..Len(e.args) }
      [] e.kind = "BinaryOp" -> Callees(e.left) \cup Callees(e.right)
      [] OTHER -> {}

\* what a call may name while function fidx is generated: a runtime symbol, a
\* function listed before it, or the function itself
Resolvable ==
    { RuntimeDecls[i].name : i \in 1..Len(RuntimeDecls) }
        \cup { program.functions[i].name : i \in 1..fidx }

\* gen_statement is about to generate a statement that is one expression
AtExprStatement ==
    /\ stage = "gen" /\ todo # <<>> /\ Head(todo).t = "stmt"
    /\ Head(todo).stmt.kind \in {"Assignment", "Return", "Expression"}

\* C27: a Call resolves exactly when it names a runtime symbol, a function
\* listed earlier in the program or the function being generated. A statement
\* that is a Call of anything else, a function listed later included, fails
\* with UndefinedFunction and ends the generation; a statement all of whose
\* calls name such functions never fails with UndefinedFunction
C27_CallsResolveBackwards ==
    [][AtExprStatement =>
          /\ (/\ Head(todo).stmt.expr.kind = "Call"
              /\ Head(todo).stmt.expr.func \notin Resolvable)
                => (stage' = "failed" /\ result' = ERR_UNDEFINED_FUNCTION)
          /\ (Callees(Head(todo).stmt.expr) \subseteq Resolvable)
                => (result' # ERR_UNDEFINED_FUNCTION)
          /\ (/\ Head(todo).stmt.expr.kind = "Call"
              /\ Callees(Head(todo).stmt.expr) \subseteq Resolvable
              /\ stage' = "gen")
                => \E i \in 1..Len(module'.blocks[builder'.cursor].instrs) :
                      /\ module'.blocks[builder'.cursor].instrs[i].op = "call"
                      /\ module'.blocks[builder'.cursor].instrs[i].callee
                            = Head(todo).stmt.expr.func]_vars

\* the first function calls the second, which the module does not hold yet
C27_Witness ==
    /\ stage = "failed" /\ result = ERR_UNDEFINED_FUNCTION
    /\ Len(program.functions) = 2
    /\ program.functions[1].code[1].kind = "Return"
    /\ program.functions[1].code[1].expr.kind = "Call"
    /\ program.functions[1].code[1].expr.func = program.functions[2].name
    /\ DefinedCount = 1

----------------------------------------------------------------------------
(* The runtime symbols a program may call *)

\* the names add_runtime declares
DeclaredRuntime == { RuntimeDecls[i].name : i \in 1..Len(RuntimeDecls) }

\* the names the generated code calls
Called == { ins.callee : ins \in { i \in AllInstrs : i.op = "call" } }

\* C28: every runtime symbol that add_runtime declares is exported by the
\* runtime library under that name, so a program with a main whose calls name
\* declared runtime symbols or its own functions links: once the object file
\* and the runtime archive are there, the linker resolves every call
C28_DeclaredSymbolsLink ==
    (/\ After("build_runtime")
     /\ {ObjPath, RuntimeArchive} \subseteq aot.files
     /\ "main" \in Defined
     /\ Called \subseteq (DeclaredRuntime \cup Defined))
        => LinkResolves

====
